---------------------------- MODULE Spec2Model ----------------------------
(***************************************************************************)
(* AP_DCC_library: the packet assembler (sup_isr_assemble_packet.h), the   *)
(* polled decoder Dcc::input() (AP_DCC_library.cpp) and the loco,          *)
(* accessory and CV decoders (sup_loco.cpp, sup_acc.cpp, sup_cv.cpp).      *)
(***************************************************************************)
EXTENDS Integers, Sequences, FiniteSets, TLC

VARIABLES
  attached,      \* attach() has run and the capture interrupt is installed
  dccrecState,   \* assembler state (GPIOR0)
  tempByte,      \* byte under construction (GPIOR1)
  dccrec,        \* [bitCount, tempMessage, tempMessageSize]
  dccMessage,    \* [isReady, size, data]: the single-slot exchange buffer
  dcc,           \* [cmdType, errorXOR]
  cvMessage,     \* [inServiceMode, SmTime]
  backup,        \* [data, size, count]: duplicate detection of CV access
  locoCmd,       \* LocoState
  locoMessage,   \* [myLocoAddressFirst, myLocoAddressLast]
  accCmd,        \* AccessoryState
  accMessage,    \* [myAccAddrFirst, myAccAddrLast, decoderAddress_old, ...]
  cvCmd,         \* CvAccessState
  millis,        \* the millisecond clock read by input()
  ret,           \* what the most recent call of input() returned
  sketch,        \* the sketch: [myCvs: the CV that cvCmd.number selects,
                 \*              printed: what cv_operation
                 \*              reported last]
  input,         \* a call of input() taken statement by statement:
                 \* [pc, myxor], the place reached and the local myxor
  driver,        \* the half-bit capture: [dccHalfBit, edge]
  generic,       \* the edge-timestamp capture: [IsrRising, DccBitVal]
  half,          \* observer of the intervals measured: [kind, tick, par,
                 \* odd, last, gave]:
                 \* the kind of the last interval measured, a tick that
                 \* flips when the kind repeats, the parity of the run of
                 \* 1 half bits in progress, and whether the run that
                 \* preceded the last 0 half bits was odd, the kind of
                 \* the last interval inside a band, and whether a bit
                 \* was handed over on it
  obs            \* observers of the packet stream, used by the properties only

vars == <<attached, dccrecState, tempByte, dccrec, dccMessage, dcc, cvMessage,
          backup, locoCmd, locoMessage, accCmd, accMessage, cvCmd, millis,
          ret, sketch, input, driver, generic, half, obs>>

---------------------------------------------------------------------------
(* Program constants *)

MaxDccSize == 6
SmTimeOut == 40
PreambleMin == 10
Uint8 == 256
Uint16 == 65536
NoAddress == 65535
AccBroadcast == 2047

(* Bounds of the model *)

MaxPreamble == 14     \* longest run of 1-bits fed while waiting for the start bit
MaxErrors == 2        \* checksum errors counted before corrupt packets stop
MaxRepeat == 4        \* longest run of identical CV packets in Spec
MaxRun == 259         \* longest run of identical CV packets in SpecCv
MaxHandheld == 1024   \* the handheld accessory addresses are 1 .. MaxHandheld
TickShort == 20       \* the two clock advances between polls
TickLong == 39
MaxTime == 80         \* the clock stops advancing here

---------------------------------------------------------------------------
(* Bit arithmetic on bytes *)

Pow2(n) == 2 ^ n

\* bits lo .. lo+n-1 of x, shifted down
Bits(x, lo, n) == (x \div Pow2(lo)) % Pow2(n)

Bit(x, i) == Bits(x, i, 1)

RECURSIVE BitAndN(_, _, _)
BitAndN(x, y, n) ==
  IF n = 0 THEN 0
  ELSE (x % 2) * (y % 2) + 2 * BitAndN(x \div 2, y \div 2, n - 1)

BitAnd(x, y) == BitAndN(x, y, 16)

RECURSIVE BitXorN(_, _, _)
BitXorN(x, y, n) ==
  IF n = 0 THEN 0
  ELSE ((x + y) % 2) + 2 * BitXorN(x \div 2, y \div 2, n - 1)

BitXor(x, y) == BitXorN(x, y, 8)

ZeroData == [i \in 0 .. MaxDccSize - 1 |-> 0]

---------------------------------------------------------------------------
(* The packet assembler, sup_isr_assemble_packet.h *)

\* a preamble accepted one bit early
PreambleCompleteEarly(count) == count >= PreambleMin

\* a preamble accepted one bit late
PreambleCompleteLate(count) == count > PreambleMin + 1

\* the test of case WAIT_PREAMBLE on the bit count, the current bit included
PreambleComplete(count) == count > PreambleMin

\* case WAIT_PREAMBLE
WaitPreamble(b) ==
  /\ dccrecState' = IF b = 1 /\ PreambleComplete(dccrec.bitCount + 1)
                    THEN "WAIT_START_BIT" ELSE "WAIT_PREAMBLE"
  /\ dccrec' = [dccrec EXCEPT !.bitCount =
                  IF b = 1 THEN (dccrec.bitCount + 1) % Uint8 ELSE 0]
  /\ UNCHANGED <<tempByte, dccMessage>>

\* case WAIT_START_BIT
WaitStartBit(b) ==
  IF b = 0
  THEN /\ dccrecState' = "WAIT_DATA"
       /\ dccrec' = [bitCount |-> 0, tempMessage |-> ZeroData,
                     tempMessageSize |-> 0]
       /\ tempByte' = 0
       /\ UNCHANGED dccMessage
  ELSE /\ dccrec' = [dccrec EXCEPT !.bitCount = (dccrec.bitCount + 1) % Uint8]
       /\ UNCHANGED <<dccrecState, tempByte, dccMessage>>

\* case WAIT_DATA without the test for a packet that is too long
WaitDataUnchecked(b) ==
  LET shifted == ((tempByte * 2) % Uint8) + b
      count   == (dccrec.bitCount + 1) % Uint8
  IN /\ tempByte' = shifted
     /\ UNCHANGED dccMessage
     /\ IF count = 8
        THEN /\ dccrecState' = "WAIT_END_BIT"
             /\ dccrec' = [dccrec EXCEPT
                  !.bitCount = count,
                  !.tempMessage[dccrec.tempMessageSize] = shifted,
                  !.tempMessageSize = dccrec.tempMessageSize + 1]
        ELSE /\ dccrecState' = "WAIT_DATA"
             /\ dccrec' = [dccrec EXCEPT !.bitCount = count]

\* case WAIT_DATA
WaitData(b) ==
  LET shifted == ((tempByte * 2) % Uint8) + b
      count   == (dccrec.bitCount + 1) % Uint8
  IN /\ tempByte' = shifted
     /\ UNCHANGED dccMessage
     /\ IF count = 8
        THEN IF dccrec.tempMessageSize = MaxDccSize
             THEN /\ dccrecState' = "WAIT_PREAMBLE"
                  /\ dccrec' = [dccrec EXCEPT !.bitCount = 0]
             ELSE /\ dccrecState' = "WAIT_END_BIT"
                  /\ dccrec' = [dccrec EXCEPT
                       !.bitCount = count,
                       !.tempMessage[dccrec.tempMessageSize] = shifted,
                       !.tempMessageSize = dccrec.tempMessageSize + 1]
        ELSE /\ dccrecState' = "WAIT_DATA"
             /\ dccrec' = [dccrec EXCEPT !.bitCount = count]

\* a copy that leaves out the last byte
PublishBufferShort(msg, temp, n) ==
  [isReady |-> 1,
   size    |-> n,
   data    |-> [i \in 0 .. MaxDccSize - 1 |->
                  IF i < n - 1 THEN temp[i] ELSE msg.data[i]]]

\* the copy of the assembled bytes into the exchange buffer, with the flag
PublishBuffer(msg, temp, n) ==
  [isReady |-> 1,
   size    |-> n,
   data    |-> [i \in 0 .. MaxDccSize - 1 |->
                  IF i < n THEN temp[i] ELSE msg.data[i]]]

\* case WAIT_END_BIT
WaitEndBit(b) ==
  /\ dccrec' = [dccrec EXCEPT !.bitCount = 0]
  /\ tempByte' = 0
  /\ IF b = 1
     THEN /\ dccMessage' = PublishBuffer(dccMessage, dccrec.tempMessage,
                                         dccrec.tempMessageSize)
          /\ dccrecState' = "WAIT_PREAMBLE"
     ELSE /\ dccrecState' = "WAIT_DATA"
          /\ UNCHANGED dccMessage

\* one pass of the capture interrupt with the sampled bit b
AssembleBit(b) ==
  /\ attached
  /\ CASE dccrecState = "WAIT_PREAMBLE"  -> WaitPreamble(b)
       [] dccrecState = "WAIT_START_BIT" -> WaitStartBit(b)
       [] dccrecState = "WAIT_DATA"      -> WaitData(b)
       [] dccrecState = "WAIT_END_BIT"   -> WaitEndBit(b)
  /\ UNCHANGED attached

\* DccMessage::attach: the assembler and the exchange buffer's flag and size
AttachReceiver ==
  /\ attached' = TRUE
  /\ dccrecState' = "WAIT_PREAMBLE"
  /\ dccrec' = [dccrec EXCEPT !.bitCount = 0]
  /\ tempByte' = 0
  /\ dccMessage' = [dccMessage EXCEPT !.size = 0, !.isReady = 0]
  /\ driver' = [driver EXCEPT !.edge = 0]     \* initTcb: EVCTRL = CAPTEI | FILTER
  /\ UNCHANGED <<generic, half>>

\* DccMessage::detach: the interrupt and the timer are stopped
DetachReceiver ==
  /\ attached
  /\ attached' = FALSE
  /\ driver' = [driver EXCEPT !.edge = 0]     \* EVCTRL = 0
  /\ UNCHANGED <<generic, half>>
  /\ UNCHANGED <<dccrecState, dccrec, tempByte, dccMessage>>

---------------------------------------------------------------------------
(* The decoders work on the decoder state gathered in one record:          *)
(*   cv (cvMessage), bk (backup), loco (locoCmd), lm (locoMessage),        *)
(*   acc (accCmd), am (accMessage), cvc (cvCmd),                           *)
(*   r (the CmdType_t returned), idn (Backup::identical was called)        *)

World ==
  [cv |-> cvMessage, bk |-> backup, loco |-> locoCmd, lm |-> locoMessage,
   acc |-> accCmd, am |-> accMessage, cvc |-> cvCmd,
   r |-> "Unknown", idn |-> FALSE]

Return(w, c) == [w EXCEPT !.r = c]

---------------------------------------------------------------------------
(* sup_cv.cpp *)

\* Backup::copy
BackupCopy(bk, m) ==
  [data  |-> [i \in 0 .. MaxDccSize - 1 |->
                IF i < m.size THEN m.data[i] ELSE bk.data[i]],
   size  |-> m.size,
   count |-> 1]

\* the counter test of Backup::identical: only the second copy is accepted
SecondCopy(count) == count = 2

\* Backup::identical: <<the backup afterwards, the result>>
BackupIdentical(bk, m) ==
  IF m.size = bk.size
  THEN IF \A i \in 0 .. m.size - 1 : m.data[i] = bk.data[i]
       THEN LET c == (bk.count + 1) % Uint8
            IN <<[bk EXCEPT !.count = c], SecondCopy(c)>>
       ELSE <<BackupCopy(bk, m), FALSE>>
  ELSE <<BackupCopy(bk, m), FALSE>>

\* the CC bits
CvOperation(cc) ==
  CASE cc = 0 -> "reserved"
    [] cc = 1 -> "verifyByte"
    [] cc = 2 -> "bitManipulation"
    [] cc = 3 -> "writeByte"

\* the CV number taken as the 10-bit address itself
CvDecodeFromZero(cvc, byte1, byte2, byte3) ==
  LET op == CvOperation(Bits(byte1, 2, 2))
      c1 == [cvc EXCEPT !.operation = op,
                        !.number = (Bits(byte1, 0, 2) * 256) + byte2,
                        !.value = byte3]
  IN IF op = "bitManipulation"
     THEN [c1 EXCEPT !.writecmd = Bit(byte3, 4),
                     !.bitvalue = Bit(byte3, 3),
                     !.bitposition = Bits(byte3, 0, 3)]
     ELSE c1

\* the long-form payload CCVV VVVVVVVV DDDDDDDD written to cvCmd
CvDecode(cvc, byte1, byte2, byte3) ==
  LET op == CvOperation(Bits(byte1, 2, 2))
      c1 == [cvc EXCEPT !.operation = op,
                        !.number = (Bits(byte1, 0, 2) * 256) + byte2 + 1,
                        !.value = byte3]
  IN IF op = "bitManipulation"
     THEN [c1 EXCEPT !.writecmd = Bit(byte3, 4),
                     !.bitvalue = Bit(byte3, 3),
                     !.bitposition = Bits(byte3, 0, 3)]
     ELSE c1

\* a window that never times out
SmNeverTimedOut(now, smTime) == FALSE

\* the timeout test of CvMessage::analyseSM
SmTimedOut(now, smTime) == (now - smTime) >= SmTimeOut

\* the window is closed and the backup is kept
SmLeaveKeepsBackup(w) == [w EXCEPT !.cv.inServiceMode = FALSE, !.r = "Unknown"]

\* the timeout branch of CvMessage::analyseSM
SmLeave(w) ==
  [w EXCEPT !.cv.inServiceMode = FALSE, !.bk.size = 0, !.bk.count = 0,
            !.r = "Unknown"]

\* a reset or idle packet that also restarts the duplicate detection
SmQuietForgets(w, now) ==
  [w EXCEPT !.cv.SmTime = now, !.bk.size = 0, !.bk.count = 0,
            !.r = "IgnoreCmd"]

\* "Reset packet in SM?" and "Idle packet in SM?": the timer is restarted
SmQuiet(w, now) == [w EXCEPT !.cv.SmTime = now, !.r = "IgnoreCmd"]

\* CvMessage::analyseSM
analyseSM(w, m, now) ==
  LET byte1 == m.data[0]
      byte2 == m.data[1]
      byte3 == m.data[2]
  IN IF SmTimedOut(now, w.cv.SmTime) THEN SmLeave(w)
     ELSE IF byte1 = 0 /\ byte2 = 0 THEN SmQuiet(w, now)
     ELSE IF byte1 = 255 THEN SmQuiet(w, now)
     ELSE IF Bits(byte1, 4, 4) = 7
       THEN LET w1 == [w EXCEPT !.cv.SmTime = now]
            IN IF m.size = 4
               THEN LET id == BackupIdentical(w1.bk, m)
                        w2 == [w1 EXCEPT !.bk = id[1], !.idn = TRUE]
                    IN IF id[2]
                       THEN [w2 EXCEPT
                               !.cvc = CvDecode(w2.cvc, byte1, byte2, byte3),
                               !.r = "SmCmd"]
                       ELSE Return(w2, "IgnoreCmd")
               ELSE Return(w1, "IgnoreCmd")
     ELSE Return(w, "IgnoreCmd")

\* CvMessage::analysePoM
analysePoM(w, m) ==
  LET offset == IF m.size = 6 THEN 2 ELSE 1
      id == BackupIdentical(w.bk, m)
      w1 == [w EXCEPT !.bk = id[1], !.idn = TRUE]
  IN IF id[2]
     THEN [w1 EXCEPT
             !.cvc = CvDecode(w1.cvc, m.data[offset], m.data[offset + 1],
                              m.data[offset + 2]),
             !.r = "MyPomCmd"]
     ELSE Return(w1, "IgnoreCmd")

---------------------------------------------------------------------------
(* sup_loco.cpp *)

\* F29_F68 is kept as its five bytes: F29F36, F37F44, F45F52, F53F60 and F61F68
\* share their storage with it, F29 at bit 0
NoF29F68 == [k \in 0 .. 4 |-> 0]
AllF29F68 == [k \in 0 .. 4 |-> 255]     \* 0xFFFFFFFFFF

\* speed and direction are reset, the functions are kept
reset_speed_only(loco) == [loco EXCEPT !.speed = 0, !.forward = TRUE]

\* LocoMessage::reset_speed
reset_speed(loco) ==
  [loco EXCEPT !.speed = 0, !.forward = TRUE,
               !.F0F4 = 0, !.F5F8 = 0, !.F9F12 = 0, !.F13F20 = 0, !.F21F28 = 0,
               !.F29_F68 = NoF29F68, !.binaryStateNumber = 0,
               !.binaryStateValue = FALSE]

\* the address compared with the first address of the range alone
LocoFromFirst(w) == w.loco.address >= w.lm.myLocoAddressFirst

\* LocoMessage::IsMyAddress
LocoIsMyAddress(w) ==
  /\ w.loco.address >= w.lm.myLocoAddressFirst
  /\ w.loco.address <= w.lm.myLocoAddressLast

FByte(f, k) == f[k]

SetFByte(f, k, v) == [f EXCEPT ![k] = v]

F29F36(loco) == FByte(loco.F29_F68, 0)
F37F44(loco) == FByte(loco.F29_F68, 1)
F45F52(loco) == FByte(loco.F29_F68, 2)
F53F60(loco) == FByte(loco.F29_F68, 3)
F61F68(loco) == FByte(loco.F29_F68, 4)

bitSet64(f, n) ==
  LET k == n \div 8
  IN [f EXCEPT ![k] = IF Bit(f[k], n % 8) = 1 THEN f[k]
                      ELSE f[k] + Pow2(n % 8)]

bitClear64(f, n) ==
  LET k == n \div 8
  IN [f EXCEPT ![k] = IF Bit(f[k], n % 8) = 1 THEN f[k] - Pow2(n % 8)
                      ELSE f[k]]

\* step 1: address, instruction byte and first data byte
LocoLong(m) == Bit(m.data[0], 7) = 1

LocoAddress(m) ==
  IF LocoLong(m) THEN (Bits(m.data[0], 0, 6) * 256) + m.data[1]
  ELSE Bits(m.data[0], 0, 7)

LocoInstruction(m) == IF LocoLong(m) THEN m.data[2] ELSE m.data[1]

LocoData(m) == IF LocoLong(m) THEN m.data[3] ELSE m.data[2]

\* the speed taken from the four low bits alone
Speed28LowBits(instr) ==
  LET raw == Bits(instr, 0, 4)
  IN [forward |-> Bit(instr, 5) = 1,
      emergencyStop |-> raw <= 3 /\ raw >= 2,
      speed |-> IF raw <= 3 THEN 0 ELSE raw - 3]

\* step 2A: 01RG-GGGG, 14/28 speed steps
Speed28(instr) ==
  LET raw == (Bits(instr, 0, 4) * 2) + Bit(instr, 4)
  IN [forward |-> Bit(instr, 5) = 1,
      emergencyStop |-> raw <= 3 /\ raw >= 2,
      speed |-> IF raw <= 3 THEN 0 ELSE raw - 3]

\* step 2B: 0011-1111 RGGG-GGGG, 128 speed steps
Speed128(data) ==
  LET raw == Bits(data, 0, 7)
  IN [forward |-> Bit(data, 7) = 1,
      emergencyStop |-> raw = 1,
      speed |-> IF raw <= 1 THEN raw ELSE raw - 1]

IsSpeed28(instr) == Bits(instr, 6, 2) = 1
IsSpeed128(instr) == instr = 63

\* the retransmission test of step 2C
SpeedRetransmission(loco, s) ==
  /\ loco.emergencyStop = s.emergencyStop
  /\ loco.speed = s.speed
  /\ loco.forward = s.forward

\* step 2C: a speed command, for this decoder or not
LocoSpeed(w, s) ==
  IF LocoIsMyAddress(w)
  THEN IF SpeedRetransmission(w.loco, s) THEN Return(w, "IgnoreCmd")
       ELSE IF s.emergencyStop
         THEN [w EXCEPT !.loco.speed = 0, !.loco.emergencyStop = TRUE,
                        !.r = "MyEmergencyStopCmd"]
       ELSE [w EXCEPT !.loco.speed = s.speed, !.loco.emergencyStop = FALSE,
                      !.loco.forward = s.forward, !.r = "MyLocoSpeedCmd"]
  ELSE IF s.speed > 0 THEN Return(w, "SomeLocoMovesFlag")
       ELSE Return(w, "SomeLocoSpeedFlag")

\* a function group stored and reported whatever value it held
LocoGroupAlways(w, field, value, cmd) ==
  [w EXCEPT !.loco[field] = value, !.r = cmd]

\* steps 6 and 7: the function groups carried in the instruction byte
LocoGroup(w, field, value, cmd) ==
  IF w.loco[field] = value THEN Return(w, "IgnoreCmd")
  ELSE [w EXCEPT !.loco[field] = value, !.r = cmd]

\* step 8: the function groups F29 .. F68, byte k of F29_F68
LocoGroupByte(w, k, value, cmd) ==
  IF FByte(w.loco.F29_F68, k) = value THEN Return(w, "IgnoreCmd")
  ELSE [w EXCEPT !.loco.F29_F68 = SetFByte(w.loco.F29_F68, k, value),
                 !.r = cmd]

\* step 9A: the state number and value of a binary state command
BinaryStateNumber(m, instr) ==
  IF LocoLong(m)
  THEN IF instr = 192
       THEN BitAnd(m.data[3], (127 + (m.data[4] * 256)) % Uint16)
       ELSE Bits(m.data[3], 0, 7)
  ELSE IF instr = 192
       THEN (Bits(m.data[2], 0, 7) + (m.data[3] * 256)) % Uint16
       ELSE Bits(m.data[2], 0, 7)

BinaryStateValue(m) ==
  IF LocoLong(m) THEN Bit(m.data[3], 7) = 1 ELSE Bit(m.data[2], 7) = 1

FGroupCmd(n) ==
  CASE n <= 36 -> "MyLocoF29F36Cmd"
    [] n >= 37 /\ n <= 44 -> "MyLocoF37F44Cmd"
    [] n >= 45 /\ n <= 52 -> "MyLocoF45F52Cmd"
    [] n >= 53 /\ n <= 60 -> "MyLocoF53F60Cmd"
    [] n >= 61 -> "MyLocoF61F68Cmd"

\* step 9: binary state commands, short and long form
LocoBinaryState(w, m, instr) ==
  LET n == BinaryStateNumber(m, instr)
      v == BinaryStateValue(m)
      w1 == [w EXCEPT !.loco.binaryStateNumber = n,
                      !.loco.binaryStateValue = v]
      old == w.loco.F29_F68
  IN IF w.loco.binaryStateNumber = n /\ w.loco.binaryStateValue = v
     THEN Return(w, "IgnoreCmd")
     ELSE IF n = 0
       THEN [w1 EXCEPT !.loco.F29_F68 = IF v THEN AllF29F68 ELSE NoF29F68,
                       !.r = "MyBinaryStateResetCmd"]
     ELSE IF n <= 28 THEN Return(w1, "IgnoreCmd")
     ELSE IF n <= 68
       THEN [w1 EXCEPT !.loco.F29_F68 = IF v THEN bitSet64(old, n - 29)
                                         ELSE bitClear64(old, n - 29),
                       !.r = FGroupCmd(n)]
     ELSE Return(w1, "MyBinaryStateCmd")

\* steps 3 .. 9: the commands that are decoded only for this decoder
LocoOther(w, m, instr) ==
  LET data == LocoData(m)
      grp  == Bits(instr, 0, 3)
  IN IF ~LocoIsMyAddress(w) THEN Return(w, "IgnoreCmd")
     ELSE IF Bits(instr, 4, 4) = 14 THEN analysePoM(w, m)
     ELSE IF instr = 0
       THEN [w EXCEPT !.loco = reset_speed(w.loco), !.r = "ResetCmd"]
     ELSE IF Bits(instr, 5, 3) = 4
       THEN LocoGroup(w, "F0F4", Bits(instr, 0, 5), "MyLocoF0F4Cmd")
     ELSE IF Bits(instr, 5, 3) = 5
       THEN IF Bit(instr, 4) = 1
            THEN LocoGroup(w, "F5F8", Bits(instr, 0, 4), "MyLocoF5F8Cmd")
            ELSE LocoGroup(w, "F9F12", Bits(instr, 0, 4), "MyLocoF9F12Cmd")
     ELSE IF Bits(instr, 3, 5) = 27 /\ grp # 5
       THEN CASE grp = 6 -> LocoGroup(w, "F13F20", data, "MyLocoF13F20Cmd")
              [] grp = 7 -> LocoGroup(w, "F21F28", data, "MyLocoF21F28Cmd")
              [] grp = 0 -> LocoGroupByte(w, 0, data, "MyLocoF29F36Cmd")
              [] grp = 1 -> LocoGroupByte(w, 1, data, "MyLocoF37F44Cmd")
              [] grp = 2 -> LocoGroupByte(w, 2, data, "MyLocoF45F52Cmd")
              [] grp = 3 -> LocoGroupByte(w, 3, data, "MyLocoF53F60Cmd")
              [] grp = 4 -> LocoGroupByte(w, 4, data, "MyLocoF61F68Cmd")
     ELSE IF instr = 221 \/ instr = 192 THEN LocoBinaryState(w, m, instr)
     ELSE Return(w, "IgnoreCmd")

\* LocoMessage::analyse
LocoAnalyse(w, m) ==
  LET instr == LocoInstruction(m)
      w1 == [w EXCEPT !.loco.longAddress = LocoLong(m),
                      !.loco.address = LocoAddress(m)]
  IN IF IsSpeed28(instr) THEN LocoSpeed(w1, Speed28(instr))
     ELSE IF IsSpeed128(instr) THEN LocoSpeed(w1, Speed128(LocoData(m)))
     ELSE LocoOther(w1, m, instr)

---------------------------------------------------------------------------
(* sup_acc.cpp *)

Roco == 0
Lenz == 1
OpenDCC == 2

\* the decoder address without the correction for Lenz
AccDecoderAddressPlain(master, m) ==
  LET msb == (7 - Bits(m.data[1], 4, 3)) * 64
      lsb == Bits(m.data[0], 0, 6)
  IN IF master = Roco THEN msb + lsb ELSE (msb + lsb - 1) % Uint16

\* step 1: the decoder address, corrected for the command station
AccDecoderAddress(master, m) ==
  LET msb == (7 - Bits(m.data[1], 4, 3)) * 64
      lsb == Bits(m.data[0], 0, 6)
  IN CASE master = Lenz ->
            ((IF lsb = 0 THEN msb + 64 ELSE msb) + lsb - 1) % Uint16
       [] master = Roco -> msb + lsb
       [] OTHER -> (msb + lsb - 1) % Uint16

\* AccMessage::IsMyAddress
AccIsMyAddress(w) ==
  \/ /\ w.acc.decoderAddress >= w.am.myAccAddrFirst
     /\ w.acc.decoderAddress <= w.am.myAccAddrLast
  \/ w.acc.decoderAddress = AccBroadcast

\* steps 1 .. 3: the attributes every accessory packet sets
AccAttributes(acc, m) ==
  LET byte1 == m.data[1]
      addr  == AccDecoderAddress(acc.myMaster, m)
      turnout == Bits(byte1, 1, 2) + 1
  IN [acc EXCEPT !.decoderAddress = addr,
                 !.turnout = turnout,
                 !.position = Bit(byte1, 0),
                 !.device = Bits(byte1, 0, 3),
                 !.activate = Bit(byte1, 3),
                 !.outputAddress = ((addr * 4) + turnout) % Uint16]

\* every packet for another decoder is reported
AccForeignAlways(w) ==
  [w EXCEPT !.am.decoderAddress_old = w.acc.decoderAddress,
            !.am.device_old = w.acc.device,
            !.r = "AnyAccessoryCmd"]

\* step 4: a packet for another decoder
AccForeign(w) ==
  IF /\ w.acc.decoderAddress = w.am.decoderAddress_old
     /\ w.acc.device = w.am.device_old
  THEN Return(w, "IgnoreCmd")
  ELSE [w EXCEPT !.am.decoderAddress_old = w.acc.decoderAddress,
                 !.am.device_old = w.acc.device,
                 !.r = "AnyAccessoryCmd"]

\* step 5, case 3: basic accessory command or NOP
AccBasic(w, byte1) ==
  IF w.acc.decoderAddress = w.am.decoderAddress_old /\ byte1 = w.am.byte1_old
  THEN Return(w, "IgnoreCmd")
  ELSE [w EXCEPT !.am.decoderAddress_old = w.acc.decoderAddress,
                 !.am.byte1_old = byte1,
                 !.r = IF Bit(byte1, 7) = 1 THEN "MyAccessoryCmd"
                       ELSE "IgnoreCmd"]

\* step 5, case 4: extended accessory command
AccExtended(w, byte1, byte2) ==
  IF /\ w.acc.decoderAddress = w.am.decoderAddress_old
     /\ byte1 = w.am.byte1_old
     /\ byte2 = w.am.byte2_old
  THEN Return(w, "IgnoreCmd")
  ELSE [w EXCEPT !.am.decoderAddress_old = w.acc.decoderAddress,
                 !.am.byte1_old = byte1,
                 !.am.byte2_old = byte2,
                 !.acc.signalHead = byte2,
                 !.r = "MyAccessoryCmd"]

\* AccMessage::analyse
AccAnalyse(w, m) ==
  LET byte1 == m.data[1]
      byte2 == m.data[2]
      w1 == [w EXCEPT !.acc = AccAttributes(w.acc, m)]
      w2 == [w1 EXCEPT !.acc.command =
               IF Bit(byte1, 7) = 1 THEN "basic" ELSE "extended"]
  IN IF ~AccIsMyAddress(w1) THEN AccForeign(w1)
     ELSE CASE m.size = 3 -> AccBasic(w2, byte1)
            [] m.size = 4 -> AccExtended(w2, byte1, byte2)
            [] m.size = 5 -> Return(w2, "IgnoreCmd")
            [] m.size = 6 -> IF Bits(m.data[2], 4, 4) = 14
                             THEN analysePoM(w2, m)
                             ELSE Return(w2, "IgnoreCmd")
            [] OTHER -> Return(w2, "IgnoreCmd")

---------------------------------------------------------------------------
(* AP_DCC_library.cpp *)

\* Dcc::analyze_broadcast_message
analyze_broadcast_message(w, m, now) ==
  IF m.data[1] = 0
  THEN [w EXCEPT !.cv.inServiceMode = TRUE, !.cv.SmTime = now,
                 !.loco = reset_speed(w.loco), !.r = "ResetCmd"]
  ELSE IF BitAnd(m.data[1], 65) = 33
    THEN [w EXCEPT !.loco = reset_speed(w.loco), !.r = "MyEmergencyStopCmd"]
  ELSE IF BitAnd(m.data[1], 65) = 32
    THEN [w EXCEPT !.loco = reset_speed(w.loco), !.r = "MyLocoSpeedCmd"]
  ELSE Return(w, "IgnoreCmd")

\* the checksum loop of Dcc::input
RECURSIVE XorUpTo(_, _)
XorUpTo(data, n) ==
  IF n = 0 THEN 0 ELSE BitXor(XorUpTo(data, n - 1), data[n - 1])

myxor(m) == XorUpTo(m.data, m.size)

\* the dispatch with the 14-bit loco addresses left out
DispatchShortOnly(w, m, now) ==
  LET firstbyte == m.data[0]
      w1 == [w EXCEPT !.cv.inServiceMode = FALSE]
  IN IF firstbyte = 0 THEN analyze_broadcast_message(w1, m, now)
     ELSE IF firstbyte <= 127 THEN LocoAnalyse(w1, m)
     ELSE IF firstbyte <= 191 THEN AccAnalyse(w1, m)
     ELSE Return(w1, "IgnoreCmd")

\* the dispatch with no branch for the reserved first bytes and the idle packet
DispatchReservedOpen(w, m, now) ==
  LET firstbyte == m.data[0]
      w1 == [w EXCEPT !.cv.inServiceMode = FALSE]
  IN IF firstbyte = 0 THEN analyze_broadcast_message(w1, m, now)
     ELSE IF firstbyte <= 127 THEN LocoAnalyse(w1, m)
     ELSE IF firstbyte <= 191 THEN AccAnalyse(w1, m)
     ELSE IF firstbyte <= 231 THEN LocoAnalyse(w1, m)
     ELSE w1

\* the dispatch by the first byte, Dcc::input
Dispatch(w, m, now) ==
  LET firstbyte == m.data[0]
      w1 == [w EXCEPT !.cv.inServiceMode = FALSE]
  IN IF firstbyte = 0 THEN analyze_broadcast_message(w1, m, now)
     ELSE IF firstbyte <= 127 THEN LocoAnalyse(w1, m)
     ELSE IF firstbyte <= 191 THEN AccAnalyse(w1, m)
     ELSE IF firstbyte <= 231 THEN LocoAnalyse(w1, m)
     ELSE Return(w1, "IgnoreCmd")

\* in Service Mode only reset, idle and Service Mode packets go to analyseSM
ClassifySmShapedOnly(w, m, now) ==
  LET sm == /\ w.cv.inServiceMode
            /\ m.data[0] = 0 \/ m.data[0] = 255 \/ Bits(m.data[0], 4, 4) = 7
      w1 == IF sm THEN analyseSM(w, m, now) ELSE w
  IN IF w1.r = "Unknown" THEN Dispatch(w1, m, now) ELSE w1

\* the analysis of a packet whose checksum is correct, Dcc::input
Classify(w, m, now) ==
  LET w1 == IF w.cv.inServiceMode THEN analyseSM(w, m, now) ELSE w
  IN IF w1.r = "Unknown" THEN Dispatch(w1, m, now) ELSE w1

\* a checksum error that is not counted
ChecksumErrorUncounted(d) == [d EXCEPT !.cmdType = "IgnoreCmd"]

\* the checksum error branch of Dcc::input
ChecksumError(d) ==
  [cmdType |-> "IgnoreCmd", errorXOR |-> (d.errorXOR + 1) % Uint8]

---------------------------------------------------------------------------
(* Observers of the packet stream.  They record what was fed to the        *)
(* program, never what the program made of it, except for `via` and `idn`  *)
(* which name the code path a packet took.                                 *)

NoPacket == <<>>

\* the bytes data[0 .. size-1] of the exchange buffer, as a sequence
Pkt(m) == [i \in 1 .. m.size |-> m.data[i - 1]]

AsArray(p) == [i \in 0 .. MaxDccSize - 1 |-> IF i < Len(p) THEN p[i + 1] ELSE 0]

RECURSIVE Checksum(_)
Checksum(p) == IF p = <<>> THEN 0 ELSE BitXor(p[1], Checksum(Tail(p)))

WithXor(p) == Append(p, Checksum(p))

\* p with bit b of byte i (from 1) inverted
Flip(p, i, b) ==
  [p EXCEPT ![i] = IF Bit(p[i], b) = 1 THEN p[i] - Pow2(b) ELSE p[i] + Pow2(b)]

ObsInit ==
  [pending |-> FALSE,       \* a packet was published and not yet read
   flipped |-> FALSE,       \* it is a valid packet with one bit inverted
   bit |-> 2,               \* the last bit fed (2: none)
   ones |-> 0,              \* 1-bits since the last 0-bit, completion, abort or attach
   run |-> 0,               \* the 1-bits that preceded the last 0-bit
   streak |-> 0,            \* SpecResync: the 1-bits fed in a row since the last 0-bit
   ended |-> 0,             \* SpecResync: the packets the assembler published or dropped
   fed |-> <<>>,            \* the bits fed since the assembler last waited for
                            \* a preamble with bit count 0
   lastVia |-> "none",      \* where the last packet read went
   lastSm |-> FALSE,        \* the window was open when it was read
   lastLate |-> FALSE,      \* and the timeout had been reached
   chainOk |-> FALSE,       \* a reset was read and no gap since reached the timeout
   chainLast |-> 0,         \* when the last packet of that chain was read
   cvLast |-> NoPacket,     \* the last packet handed to Backup::identical
   cvRun |-> 0,             \* its position in the run of identical ones
   idn |-> FALSE,           \* the last packet read was handed to Backup::identical
   pair |-> 0,              \* the place of that packet in its pair: 1, 2, 3 for
                            \* a third or later copy, 4 once a packet of
                            \* another kind was read after a complete pair
   gap |-> 0,               \* SpecQuiet: what was read inside the Service Mode
                            \* window since the last CV packet: 0 nothing, 1 idle
                            \* and reset packets only, 2 other packets; 3: the
                            \* packet last read is a CV packet that followed
                            \* idle and reset packets only
   accLast |-> NoPacket,    \* the accessory command last reported as mine
   lastSpeed |-> NoPacket,  \* the packet last read, if a speed packet for this loco
   h |-> 0,                 \* the handheld address last sent, 0: none
   xored |-> NoPacket,      \* the packet in the buffer when a call of input()
                            \* taken statement by statement ran its checksum loop
   foreignLast |-> NoPacket] \* decoder address and device of the packet last
                            \* read, if an accessory packet for another decoder

\* where Dcc::input sends the packet m
Via(m, now) ==
  IF myxor(m) # 0 THEN "xor"
  ELSE IF cvMessage.inServiceMode /\ ~SmTimedOut(now, cvMessage.SmTime)
    THEN "sm"
  ELSE IF m.data[0] = 0 THEN "bcast"
  ELSE IF m.data[0] <= 127 \/ (m.data[0] >= 192 /\ m.data[0] <= 231)
    THEN "loco"
  ELSE IF m.data[0] <= 191 THEN "acc"
  ELSE "none"

IsResetShape(m) == m.data[0] = 0 /\ m.data[1] = 0
IsIdleShape(m) == m.data[0] = 255
IsSmShape(m) == m.data[0] >= 112 /\ m.data[0] <= 127

\* m is a loco speed packet, 01RG-GGGG or 0011-1111, for an address of this
\* decoder
IsMySpeedPacket(m) ==
  LET long  == m.data[0] >= 192 /\ m.data[0] <= 231
      short == m.data[0] >= 1 /\ m.data[0] <= 127
      addr  == IF long THEN ((m.data[0] - 192) * 256) + m.data[1]
               ELSE m.data[0]
      instr == IF long THEN m.data[2] ELSE m.data[1]
  IN /\ long \/ short
     /\ addr >= locoMessage.myLocoAddressFirst
     /\ addr <= locoMessage.myLocoAddressLast
     /\ (instr >= 64 /\ instr <= 127) \/ instr = 63

\* the accessory command of m for the decoder address addr
AccCommandOf(addr, m) ==
  IF m.size = 4 THEN <<addr, m.data[1], m.data[2]>> ELSE <<addr, m.data[1]>>

\* decoder address and device of the accessory packet m, if it is for
\* another decoder
ForeignPair(m) ==
  LET addr == AccDecoderAddress(accCmd.myMaster, m)
  IN IF \/ addr = AccBroadcast
        \/ (addr >= accMessage.myAccAddrFirst /\ addr <= accMessage.myAccAddrLast)
     THEN NoPacket
     ELSE <<addr, m.data[1] % 8>>

ObsPoll(w, m, now) ==
  LET ok == myxor(m) = 0
      late == cvMessage.inServiceMode /\ SmTimedOut(now, cvMessage.SmTime)
      inChain == obs.chainOk /\ (now - obs.chainLast) < SmTimeOut
      qual == IsIdleShape(m) \/ IsSmShape(m)
      run0 == IF ok /\ late THEN 0 ELSE obs.cvRun
      cv0 == IF ok /\ late THEN NoPacket ELSE obs.cvLast
      pair0 == IF ok /\ late THEN 0 ELSE obs.pair
  IN [obs EXCEPT
        !.pending = FALSE,
        !.lastVia = Via(m, now),
        !.lastSm = cvMessage.inServiceMode,
        !.lastLate = late,
        !.chainOk = IF ~ok THEN obs.chainOk
                    ELSE IF IsResetShape(m) THEN TRUE
                    ELSE IF qual THEN inChain
                    ELSE obs.chainOk,
        !.chainLast = IF ok /\ (IsResetShape(m) \/ (qual /\ inChain))
                      THEN now ELSE obs.chainLast,
        !.idn = w.idn,
        !.cvLast = IF w.idn THEN Pkt(m) ELSE cv0,
        !.cvRun = IF w.idn
                  THEN (IF Pkt(m) = cv0 THEN run0 + 1 ELSE 1)
                  ELSE run0,
        !.pair = IF w.idn
                 THEN (IF Pkt(m) # cv0 \/ pair0 = 4 THEN 1
                       ELSE IF pair0 = 1 THEN 2 ELSE 3)
                 ELSE IF ok /\ pair0 = 2 THEN 4 ELSE pair0,
        !.accLast = IF w.r = "MyAccessoryCmd"
                    THEN AccCommandOf(w.acc.decoderAddress, m)
                    ELSE IF w.r = "MyPomCmd" /\ Via(m, now) = "acc"
                      THEN NoPacket
                    ELSE obs.accLast,
        !.lastSpeed = IF Via(m, now) = "loco" /\ IsMySpeedPacket(m)
                      THEN Pkt(m) ELSE NoPacket,
        !.foreignLast = IF Via(m, now) = "acc" THEN ForeignPair(m)
                        ELSE NoPacket]

---------------------------------------------------------------------------
(* Actions *)

\* the flag is left set
KeepReady(msg) == msg

\* "Clear the dccMessage flag", Dcc::input
ClearReady(msg) == [msg EXCEPT !.isReady = 0]

\* Dcc::input
Poll ==
  /\ IF dccMessage.isReady # 0
     THEN LET m  == dccMessage
              ok == myxor(m) = 0
              w  == IF ok THEN Classify(World, m, millis) ELSE World
          IN /\ dcc' = IF ok THEN [dcc EXCEPT !.cmdType = w.r]
                       ELSE ChecksumError(dcc)
             /\ cvMessage' = w.cv
             /\ backup' = w.bk
             /\ locoCmd' = w.loco
             /\ accCmd' = w.acc
             /\ accMessage' = w.am
             /\ cvCmd' = w.cvc
             /\ dccMessage' = ClearReady(dccMessage)
             /\ ret' = "true"
             /\ obs' = ObsPoll(w, m, millis)
     ELSE /\ ret' = "false"
          /\ UNCHANGED <<dcc, cvMessage, backup, locoCmd, accCmd, accMessage,
                         cvCmd, dccMessage, obs>>
  /\ UNCHANGED <<attached, dccrecState, tempByte, dccrec, locoMessage, millis,
                 sketch, input, driver, generic, half>>

\* Dcc::input up to the end of the checksum loop
InputTest ==
  /\ input.pc = "idle"
  /\ IF dccMessage.isReady # 0
     THEN /\ dcc' = [dcc EXCEPT !.cmdType = "Unknown"]
          /\ input' = [pc |-> "checked", myxor |-> myxor(dccMessage)]
          /\ obs' = [obs EXCEPT !.xored = Pkt(dccMessage)]
          /\ UNCHANGED ret
     ELSE /\ ret' = "false"
          /\ UNCHANGED <<dcc, input, obs>>
  /\ UNCHANGED <<attached, dccrecState, tempByte, dccrec, dccMessage,
                 cvMessage, backup, locoCmd, locoMessage, accCmd, accMessage,
                 cvCmd, millis, sketch, driver, generic, half>>

\* Dcc::input from "if (myxor)" to the end of the dispatch, which reads the
\* exchange buffer again
InputClassify ==
  /\ input.pc = "checked"
  /\ LET m  == dccMessage
         ok == input.myxor = 0
         w  == IF ok THEN Classify(World, m, millis) ELSE World
     IN /\ dcc' = IF ok THEN [dcc EXCEPT !.cmdType = w.r]
                  ELSE ChecksumError(dcc)
        /\ cvMessage' = w.cv
        /\ backup' = w.bk
        /\ locoCmd' = w.loco
        /\ accCmd' = w.acc
        /\ accMessage' = w.am
        /\ cvCmd' = w.cvc
        /\ obs' = ObsPoll(w, m, millis)
  /\ input' = [input EXCEPT !.pc = "classified"]
  /\ UNCHANGED <<attached, dccrecState, tempByte, dccrec, dccMessage,
                 locoMessage, millis, ret, sketch, driver, generic, half>>

\* Dcc::input from "Clear the dccMessage flag" to the return
InputClear ==
  /\ input.pc = "classified"
  /\ dccMessage' = ClearReady(dccMessage)
  /\ ret' = "true"
  /\ input' = [pc |-> "idle", myxor |-> 0]
  /\ UNCHANGED <<attached, dccrecState, tempByte, dccrec, dcc, cvMessage,
                 backup, locoCmd, locoMessage, accCmd, accMessage, cvCmd,
                 millis, sketch, driver, generic, half, obs>>

\* the capture interrupt completes the packet p (case WAIT_END_BIT, end bit 1);
\* f tells the observers that p is a valid packet with one bit inverted
Deliver(p, f) ==
  /\ attached
  /\ dccMessage' = PublishBuffer(dccMessage, AsArray(p), Len(p))
  /\ obs' = [obs EXCEPT !.pending = TRUE, !.flipped = f]
  /\ UNCHANGED <<attached, dccrecState, tempByte, dccrec, dcc, cvMessage,
                 backup, locoCmd, locoMessage, accCmd, accMessage, cvCmd,
                 millis, ret, sketch, input, driver, generic, half>>

Publish(p) == Deliver(p, FALSE)

\* Loco::setMyAddress and Accessory::setMyAddress
MyRange(first, last) == IF last = NoAddress THEN <<first, first>> ELSE <<first, last>>

\* setup() of the sketch: dcc.attach(), then the address ranges and myMaster
Setup(cfg) ==
  /\ ~attached
  /\ AttachReceiver
  /\ dcc' = [dcc EXCEPT !.errorXOR = 0]
  /\ locoMessage' = [myLocoAddressFirst |-> MyRange(cfg.loco[1], cfg.loco[2])[1],
                     myLocoAddressLast  |-> MyRange(cfg.loco[1], cfg.loco[2])[2]]
  /\ accMessage' = [accMessage EXCEPT
                      !.myAccAddrFirst = MyRange(cfg.acc[1], cfg.acc[2])[1],
                      !.myAccAddrLast  = MyRange(cfg.acc[1], cfg.acc[2])[2]]
  /\ accCmd' = [accCmd EXCEPT !.myMaster = cfg.master]
  /\ obs' = [obs EXCEPT !.pending = FALSE, !.bit = 2, !.ones = 0,
                         !.fed = <<>>]
  /\ UNCHANGED <<cvMessage, backup, locoCmd, cvCmd, millis, ret, sketch,
                 input>>

\* the millisecond clock advances
Tick(d) ==
  /\ millis + d <= MaxTime
  /\ millis' = millis + d
  /\ UNCHANGED <<attached, dccrecState, tempByte, dccrec, dccMessage, dcc,
                 cvMessage, backup, locoCmd, locoMessage, accCmd, accMessage,
                 cvCmd, ret, sketch, input, driver, generic, half, obs>>

---------------------------------------------------------------------------
(* CvAccess::writeBit and CvAccess::verifyBit, and the sketch that calls    *)
(* them on its CV storage                                                  *)

RECURSIVE BitOrN(_, _, _)
BitOrN(x, y, n) ==
  IF n = 0 THEN 0
  ELSE (IF (x % 2) + (y % 2) > 0 THEN 1 ELSE 0)
       + 2 * BitOrN(x \div 2, y \div 2, n - 1)

\* the macros of Arduino.h on a uint8_t
bitSet(value, bit) == BitOrN(value, Pow2(bit), 8)
bitClear(value, bit) == BitAndN(value, (Uint8 - 1) - Pow2(bit), 8)
bitRead(value, bit) == BitAndN(value \div Pow2(bit), 1, 8)

\* the bit is set whatever bitvalue says
writeBitAlwaysSet(cvc, data) == bitSet(data, cvc.bitposition)

\* CvAccess::writeBit
writeBit(cvc, data) ==
  IF cvc.bitvalue = 1 THEN bitSet(data, cvc.bitposition)
  ELSE bitClear(data, cvc.bitposition)

\* CvAccess::verifyBit
verifyBit(cvc, data) == bitRead(data, cvc.bitposition) = cvc.bitvalue

\* the CV of the sketch that the model follows: myCvs[SketchCv - 1]
SketchCv == 8         \* one of the 30 CVs of the sketch

\* loop() of the sketch after input() returned true: cv_operation when
\* cmdType is MyPomCmd or SmCmd.  sendAck drives the acknowledgement pin and
\* touches no variable.
cv_operation ==
  /\ ret = "true"
  /\ ret' = "none"
  /\ IF dcc.cmdType \in {"MyPomCmd", "SmCmd"} /\ cvCmd.number = SketchCv
     THEN LET cv == sketch.myCvs
          IN sketch' =
               CASE cvCmd.operation = "verifyByte" ->
                      [sketch EXCEPT !.printed =
                         IF cv = cvCmd.value THEN "Bytes are equal"
                         ELSE "Bytes are unequal"]
                 [] cvCmd.operation = "writeByte" ->
                      [myCvs |-> cvCmd.value, printed |-> "Write Byte"]
                 [] cvCmd.operation = "bitManipulation" ->
                      IF cvCmd.writecmd # 0
                      THEN [myCvs |-> writeBit(cvCmd, cv),
                            printed |-> "Write Bit"]
                      ELSE [sketch EXCEPT !.printed =
                              IF verifyBit(cvCmd, cv) THEN "Bits are equal"
                              ELSE "Bits are unequal"]
                 [] OTHER -> sketch
     ELSE UNCHANGED sketch
  /\ UNCHANGED <<attached, dccrecState, tempByte, dccrec, dccMessage, dcc,
                 cvMessage, backup, locoCmd, locoMessage, accCmd, accMessage,
                 cvCmd, millis, input, driver, generic, half, obs>>

---------------------------------------------------------------------------
(* The state after construction of the global objects *)

Init ==
  /\ attached = FALSE
  /\ dccrecState = "NONE"
  /\ tempByte = 0
  /\ dccrec = [bitCount |-> 0, tempMessage |-> ZeroData, tempMessageSize |-> 0]
  /\ dccMessage = [isReady |-> 0, size |-> 0, data |-> ZeroData]
  /\ dcc = [cmdType |-> "Unknown", errorXOR |-> 0]
  /\ cvMessage = [inServiceMode |-> FALSE, SmTime |-> 0]
  /\ backup = [data |-> ZeroData, size |-> 0, count |-> 0]
  /\ locoCmd = reset_speed(
       [address |-> NoAddress, longAddress |-> FALSE, emergencyStop |-> FALSE,
        speed |-> 0, forward |-> TRUE, F0F4 |-> 0, F5F8 |-> 0, F9F12 |-> 0,
        F13F20 |-> 0, F21F28 |-> 0, F29_F68 |-> NoF29F68,
        binaryStateNumber |-> 0, binaryStateValue |-> FALSE])
  /\ locoMessage = [myLocoAddressFirst |-> NoAddress,
                    myLocoAddressLast  |-> NoAddress]
  /\ accCmd = [myMaster |-> Lenz, command |-> "basic", decoderAddress |-> 0,
               outputAddress |-> 0, device |-> 0, turnout |-> 0,
               position |-> 0, activate |-> 0, signalHead |-> 0]
  /\ accMessage = [myAccAddrFirst |-> NoAddress, myAccAddrLast |-> NoAddress,
                   decoderAddress_old |-> NoAddress, device_old |-> 0,
                   byte1_old |-> 0, byte2_old |-> 255]
  /\ cvCmd = [operation |-> "reserved", number |-> 0, value |-> 0,
              writecmd |-> 0, bitvalue |-> 0, bitposition |-> 0]
  /\ millis = 0
  /\ ret = "none"
  /\ sketch = [myCvs |-> 0, printed |-> "none"]
  /\ input = [pc |-> "idle", myxor |-> 0]
  /\ driver = [dccHalfBit |-> 0, edge |-> 0]
  /\ obs = ObsInit
  /\ half = [kind |-> "none", tick |-> 0, par |-> 0, odd |-> FALSE,
             last |-> "none", gave |-> FALSE]
  /\ generic = [IsrRising |-> TRUE, DccBitVal |-> 0]

---------------------------------------------------------------------------
(* SpecAsm: the capture interrupt fed bit by bit.  Preambles are arbitrary; *)
(* the data bits follow one of the frames below, cut short by an end bit    *)
(* at any byte boundary.                                                    *)

AsmFrames ==
  { <<255, 0, 255>>,
    <<3, 100, 103, 124, 2, 85, 43>> }

\* the first n bytes the assembler stored are the first n bytes of the frame f
FramePrefix(f, n) == \A i \in 1 .. n : f[i] = dccrec.tempMessage[i - 1]

\* the bit b continues some frame of F, or ends the packet
BitAllowedIn(F, b) ==
  LET n == dccrec.tempMessageSize
      k == dccrec.bitCount
  IN CASE dccrecState = "WAIT_PREAMBLE" -> TRUE
       [] dccrecState = "WAIT_START_BIT" -> b = 0 \/ obs.ones < MaxPreamble
       [] dccrecState = "WAIT_DATA" ->
            \E f \in F :
              /\ Len(f) > n
              /\ FramePrefix(f, n)
              /\ Bits(f[n + 1], 7 - k, k + 1) = (tempByte * 2) + b
       [] dccrecState = "WAIT_END_BIT" ->
            b = 1 \/ \E f \in F : Len(f) > n /\ FramePrefix(f, n)
       [] OTHER -> FALSE

BitAllowed(b) == BitAllowedIn(AsmFrames, b)

\* the assembler runs with the bit b; runs of 1-bits and finished packets
\* are counted where the specification bounds them
Assemble(b, counted) ==
  /\ AssembleBit(b)
  /\ obs' = [obs EXCEPT
       !.bit = b,
       !.streak = IF ~counted THEN obs.streak
                  ELSE IF b = 0 THEN 0 ELSE obs.streak + 1,
       !.ended = IF counted /\ dccrecState \in {"WAIT_DATA", "WAIT_END_BIT"}
                    /\ dccrecState' = "WAIT_PREAMBLE"
                 THEN obs.ended + 1 ELSE obs.ended,
       !.run = IF b = 0 THEN obs.ones ELSE obs.run,
       !.fed = IF dccrecState' = "WAIT_PREAMBLE" /\ dccrec'.bitCount = 0
               THEN <<>> ELSE Append(obs.fed, b),
       !.ones = IF b = 0 \/ dccrecState = "WAIT_END_BIT"
                   \/ (dccrecState = "WAIT_DATA"
                       /\ dccrecState' = "WAIT_PREAMBLE")
                THEN 0 ELSE obs.ones + 1,
       !.pending = obs.pending \/ (dccrecState = "WAIT_END_BIT" /\ b = 1)]
  /\ UNCHANGED <<dcc, cvMessage, backup, locoCmd, locoMessage, accCmd,
                 accMessage, cvCmd, millis, ret, sketch, input>>

\* the assembler runs with the bit b, which continues some frame of F
Feed(F, b) == BitAllowedIn(F, b) /\ Assemble(b, FALSE)

\* the interrupt of a driver that samples whole bits fires with the bit b
FeedBit(b) == Feed(AsmFrames, b) /\ UNCHANGED <<driver, generic, half>>

\* Dcc::detach
Detach ==
  /\ DetachReceiver
  /\ UNCHANGED <<dcc, cvMessage, backup, locoCmd, locoMessage, accCmd,
                 accMessage, cvCmd, millis, ret, sketch, input, obs>>

\* loco address 3, accessory decoder address 1, command station Lenz
CfgLenz == [loco |-> <<3, NoAddress>>, acc |-> <<1, NoAddress>>, master |-> Lenz]

NextAsm ==
  \/ Setup(CfgLenz)
  \/ Detach
  \/ \E b \in {0, 1} : FeedBit(b)

SpecAsm == Init /\ [][NextAsm]_vars

---------------------------------------------------------------------------
(* SpecResync: the capture interrupt fed the bits of a frame, which a run   *)
(* of 1-bits may interrupt at any bit                                       *)

MaxOnes == 21         \* longest run of 1-bits fed in SpecResync
MaxPackets == 2       \* packets published or dropped in SpecResync

ResyncFrames == { <<3, 100, 103, 124, 2, 85, 43>> }

\* the start bit follows the shortest preamble or a long run of 1-bits
StartAllowed ==
  dccrecState = "WAIT_START_BIT"
    => obs.streak = PreambleMin + 1 \/ obs.streak >= MaxOnes - 1

\* the interrupt fires with a 1-bit whatever the assembler waits for, or
\* with a 0-bit that continues a frame
FeedResync(b) ==
  /\ obs.ended < MaxPackets
  /\ IF b = 1 THEN obs.streak < MaxOnes
              ELSE BitAllowedIn(ResyncFrames, 0) /\ StartAllowed
  /\ Assemble(b, TRUE)
  /\ UNCHANGED <<driver, generic, half>>

NextResync ==
  \/ Setup(CfgLenz)
  \/ \E b \in {0, 1} : FeedResync(b)

SpecResync == Init /\ [][NextResync]_vars

---------------------------------------------------------------------------
(* SpecHalf: the capture interrupt of sup_isr_MegaCoreX_DxCore.h, which     *)
(* measures half bits, fed the half bits of one frame, detached at any     *)
(* moment and attached again                                               *)

\* the values of dccHalfBit; GPIOR2 holds 0 after a reset of the processor
EXPECT_ZERO == 1
EXPECT_ONE == 2
EXPECT_ANYTHING == 4

HalfFrames == {<<255, 0, 255>>}

\* "We expected ... => abort"
HalfAbort(toggles) ==
  /\ driver' = [dccHalfBit |-> EXPECT_ANYTHING,
                edge |-> (driver.edge + toggles) % 2]
  /\ dccrecState' = "WAIT_PREAMBLE"
  /\ dccrec' = [dccrec EXCEPT !.bitCount = 0]
  /\ obs' = [obs EXCEPT !.bit = 2, !.ones = 0, !.fed = <<>>]
  /\ UNCHANGED <<attached, tempByte, dccMessage, dcc, cvMessage, backup,
                 locoCmd, locoMessage, accCmd, accMessage, cvCmd, millis,
                 ret, sketch, input>>

\* the interrupt returns before the assembler, with dccHalfBit = e
HalfReturn(e) ==
  /\ driver' = [dccHalfBit |-> e, edge |-> (driver.edge + 1) % 2]
  /\ UNCHANGED <<attached, dccrecState, tempByte, dccrec, dccMessage, dcc,
                 cvMessage, backup, locoCmd, locoMessage, accCmd, accMessage,
                 cvCmd, millis, ret, sketch, input, obs>>

\* what the observer of the capture holds after an interval of kind h: a
\* bit was handed over if the assembler or the observers of its bits moved
HalfSeen(h) ==
  [kind |-> h,
   tick |-> IF half.kind = h THEN 1 - half.tick ELSE 0,
   par |-> IF h = "one" THEN 1 - half.par ELSE 0,
   odd |-> IF h = "zero" /\ half.kind = "one" THEN half.par = 1 ELSE half.odd,
   last |-> IF h = "other" THEN half.last ELSE h,
   gave |-> IF h = "other" THEN half.gave
            ELSE /\ obs'.bit \in {0, 1}
                 /\ \/ obs' # obs
                    \/ <<dccrecState, dccrec, tempByte, dccMessage>>'
                         # <<dccrecState, dccrec, tempByte, dccMessage>>]

\* the interrupt handing over a bit with the first half already
HalfIsrEager(h, watched) ==
  /\ attached
  /\ CASE h = "one" ->
            IF driver.dccHalfBit = EXPECT_ONE
                 \/ driver.dccHalfBit = EXPECT_ANYTHING
            THEN /\ Feed(HalfFrames, 1)
                 /\ driver' = [dccHalfBit |-> EXPECT_ANYTHING,
                               edge |-> (driver.edge + 1) % 2]
            ELSE HalfAbort(2)
       [] h = "zero" ->
            IF driver.dccHalfBit = EXPECT_ZERO
            THEN /\ Feed(HalfFrames, 0)
                 /\ driver' = [dccHalfBit |-> EXPECT_ANYTHING,
                               edge |-> (driver.edge + 1) % 2]
            ELSE IF driver.dccHalfBit = EXPECT_ANYTHING
            THEN HalfReturn(EXPECT_ZERO)
            ELSE IF dccrecState = "WAIT_START_BIT"
            THEN HalfReturn(EXPECT_ZERO)
            ELSE HalfAbort(1)
       [] OTHER -> HalfReturn(driver.dccHalfBit)
  /\ half' = IF watched THEN HalfSeen(h) ELSE half
  /\ UNCHANGED generic

\* the interrupt without the exception for a 0 half bit that ends an odd
\* preamble
HalfIsrStrict(h, watched) ==
  /\ attached
  /\ CASE h = "one" ->
            IF driver.dccHalfBit = EXPECT_ONE
            THEN /\ Feed(HalfFrames, 1)
                 /\ driver' = [dccHalfBit |-> EXPECT_ANYTHING,
                               edge |-> (driver.edge + 1) % 2]
            ELSE IF driver.dccHalfBit = EXPECT_ANYTHING
            THEN HalfReturn(EXPECT_ONE)
            ELSE HalfAbort(2)
       [] h = "zero" ->
            IF driver.dccHalfBit = EXPECT_ZERO
            THEN /\ Feed(HalfFrames, 0)
                 /\ driver' = [dccHalfBit |-> EXPECT_ANYTHING,
                               edge |-> (driver.edge + 1) % 2]
            ELSE IF driver.dccHalfBit = EXPECT_ANYTHING
            THEN HalfReturn(EXPECT_ZERO)
            ELSE HalfAbort(1)
       [] OTHER -> HalfReturn(driver.dccHalfBit)
  /\ half' = IF watched THEN HalfSeen(h) ELSE half
  /\ UNCHANGED generic

\* ISR(TCBx_INT_vect) with delta in the range of a 1 half bit ("one"), of a
\* 0 half bit ("zero") or in neither ("other"); the intervals are recorded
\* where the properties need them
HalfIsr(h, watched) ==
  /\ attached
  /\ CASE h = "one" ->
            IF driver.dccHalfBit = EXPECT_ONE
            THEN /\ Feed(HalfFrames, 1)
                 /\ driver' = [dccHalfBit |-> EXPECT_ANYTHING,
                               edge |-> (driver.edge + 1) % 2]
            ELSE IF driver.dccHalfBit = EXPECT_ANYTHING
            THEN HalfReturn(EXPECT_ONE)
            ELSE HalfAbort(2)
       [] h = "zero" ->
            IF driver.dccHalfBit = EXPECT_ZERO
            THEN /\ Feed(HalfFrames, 0)
                 /\ driver' = [dccHalfBit |-> EXPECT_ANYTHING,
                               edge |-> (driver.edge + 1) % 2]
            ELSE IF driver.dccHalfBit = EXPECT_ANYTHING
            THEN HalfReturn(EXPECT_ZERO)
            ELSE IF dccrecState = "WAIT_START_BIT"
            THEN HalfReturn(EXPECT_ZERO)
            ELSE HalfAbort(1)
       [] OTHER -> HalfReturn(driver.dccHalfBit)
  /\ half' = IF watched THEN HalfSeen(h) ELSE half
  /\ UNCHANGED generic

HalfBit(h) == HalfIsr(h, FALSE)

NextHalf ==
  \/ Setup(CfgLenz)
  \/ Detach
  \/ \E h \in {"one", "zero", "other"} : HalfBit(h)

SpecHalf == Init /\ [][NextHalf]_vars

---------------------------------------------------------------------------
(* Packets *)

PktReset      == <<0, 0, 0>>
PktIdle       == <<255, 0, 255>>
PktSmWrite    == WithXor(<<124, 2, 85>>)      \* 0111-1100: write CV 3 := 85
PktSmVerify   == WithXor(<<116, 2, 85>>)      \* 0111-0100: verify CV 3 = 85
PktSpeed28    == WithXor(<<3, 100>>)          \* loco 3, 0110-0100: forward, step 5
PktSpeed28R   == WithXor(<<3, 68>>)           \* loco 3, 0100-0100: reverse, step 5
PktStop28     == WithXor(<<3, 96>>)           \* loco 3, 0110-0000: forward, stop
PktStop28R    == WithXor(<<3, 64>>)           \* loco 3, 0100-0000: reverse, stop
PktEStop28    == WithXor(<<3, 97>>)           \* loco 3, 0110-0001: forward, e-stop
PktEStop28R   == WithXor(<<3, 65>>)           \* loco 3, 0100-0001: reverse, e-stop
PktSpeed128   == WithXor(<<3, 63, 133>>)      \* loco 3, forward, step 4 of 126
PktSpeed128R  == WithXor(<<3, 63, 5>>)        \* loco 3, reverse, step 4 of 126
PktStop128    == WithXor(<<3, 63, 128>>)      \* loco 3, forward, stop
PktEStop128   == WithXor(<<3, 63, 129>>)      \* loco 3, forward, e-stop
PktEStop128R  == WithXor(<<3, 63, 1>>)        \* loco 3, reverse, e-stop
PktF0F4       == WithXor(<<3, 145>>)          \* loco 3, 1001-0001: F0 and F1 on
PktF29F36     == WithXor(<<3, 216, 129>>)     \* loco 3, 1101-1000: F29 and F36 on
PktPom        == WithXor(<<3, 236, 2, 85>>)   \* loco 3, 1110-1100: write CV 3 := 85
PktPomVerify  == WithXor(<<3, 228, 2, 85>>)   \* loco 3, 1110-0100: verify CV 3 = 85
PktOtherLoco  == WithXor(<<5, 100>>)          \* loco 5, forward, step 5
PktAcc        == WithXor(<<130, 248>>)        \* decoder 1 (Lenz), 1111-1000
PktAccOff     == WithXor(<<130, 249>>)        \* decoder 1 (Lenz), 1111-1001
PktAccExt     == WithXor(<<130, 113, 5>>)     \* decoder 1 (Lenz), 0111-0001, aspect 5
PktAccNop     == WithXor(<<130, 113>>)        \* decoder 1 (Lenz), three bytes, bit 7 clear
PktAccPom     == WithXor(<<130, 248, 236, 2, 85>>)
PktOtherAcc   == WithXor(<<133, 248>>)        \* decoder 4 (Lenz)

\* a run of identical CV access packets is fed up to the length max
RunAllowed(p, max) == p # obs.cvLast \/ obs.cvRun < max

\* the next packet completes after loop() has read the one before
Send(p) ==
  /\ dccMessage.isReady = 0
  /\ RunAllowed(p, MaxRepeat)
  /\ Publish(p)

\* a checksum error is fed only while fewer than MaxErrors were counted
SendCorrupt(p, i, b) ==
  /\ dccMessage.isReady = 0
  /\ dcc.errorXOR < MaxErrors
  /\ Deliver(Flip(p, i, b), TRUE)

---------------------------------------------------------------------------
(* Spec: the decoder polled by loop(), fed complete packets of every kind,  *)
(* some of them with one bit inverted                                       *)

Packets == {PktReset, PktSmWrite, PktSpeed28, PktAcc}

Next ==
  \/ Setup(CfgLenz)
  \/ \E p \in Packets : Send(p)
  \/ \E p \in Packets : \E i \in 1 .. Len(p) : \E b \in {0, 7} :
       SendCorrupt(p, i, b)
  \/ Poll

Spec == Init /\ [][Next]_vars

---------------------------------------------------------------------------
(* SpecCv: long runs of identical CV access packets, on the main and, after *)
(* a reset packet, in Service Mode                                          *)

CvPackets == {PktReset, PktSmWrite, PktSmVerify, PktPom}

SendRun(p) ==
  /\ dccMessage.isReady = 0
  /\ RunAllowed(p, MaxRun)
  /\ Publish(p)

NextCv ==
  \/ Setup(CfgLenz)
  \/ \E p \in CvPackets : SendRun(p)
  \/ Poll

SpecCv == Init /\ [][NextCv]_vars

---------------------------------------------------------------------------
(* SpecSm: the Service Mode window against the clock *)

SmPackets == {PktReset, PktIdle, PktSmWrite, PktSpeed28, PktF0F4}

NextSm ==
  \/ Setup(CfgLenz)
  \/ \E p \in SmPackets : Send(p)
  \/ Poll
  \/ \E d \in {TickShort, TickLong} : Tick(d)

SpecSm == Init /\ [][NextSm]_vars

---------------------------------------------------------------------------
(* SpecLoco: speed, stop and emergency stop in both encodings and both     *)
(* directions, with a function group and another loco's packets in between *)

LocoPackets ==
  {PktSpeed28, PktSpeed28R, PktStop28, PktStop28R, PktEStop28, PktEStop28R,
   PktSpeed128, PktSpeed128R, PktStop128, PktEStop128, PktEStop128R,
   PktF0F4, PktOtherLoco}

NextLoco ==
  \/ Setup(CfgLenz)
  \/ \E p \in LocoPackets : Send(p)
  \/ Poll

SpecLoco == Init /\ [][NextLoco]_vars

---------------------------------------------------------------------------
(* SpecAcc: accessory commands for this decoder and for another one *)

AccPackets ==
  {PktAcc, PktAccOff, PktAccExt, PktOtherAcc, PktOtherLoco}

NextAcc ==
  \/ Setup(CfgLenz)
  \/ \E p \in AccPackets : Send(p)
  \/ Poll

SpecAcc == Init /\ [][NextAcc]_vars

---------------------------------------------------------------------------
(* SpecRoute: packets whose first byte lies at the ends of each range of   *)
(* the dispatch of Dcc::input, the broadcast packets among them, against   *)
(* the clock                                                               *)

PktBcastEStop == WithXor(<<0, 65>>)           \* 0100-0001: e-stop, all locos
PktBcastStop  == WithXor(<<0, 64>>)           \* 0100-0000: stop, all locos
PktShortMax   == WithXor(<<127, 100>>)        \* loco 127, forward, step 5
PktAccMin     == WithXor(<<128, 248>>)        \* 1000-0000: first accessory byte
PktAccMax     == WithXor(<<191, 248>>)        \* 1011-1111: last accessory byte
PktLongMin    == WithXor(<<192, 3, 100>>)     \* 1100-0000: loco 3, long address
PktLongMax    == WithXor(<<231, 255, 100>>)   \* 1110-0111: loco 10239
PktReservedMin == WithXor(<<232, 100>>)       \* 1110-1000: reserved
PktReservedMax == WithXor(<<254, 100>>)       \* 1111-1110: reserved

RoutePackets ==
  {PktReset, PktBcastEStop, PktBcastStop, PktSpeed28, PktShortMax, PktAccMin,
   PktAccMax, PktLongMin, PktLongMax, PktReservedMin, PktReservedMax, PktIdle}

NextRoute ==
  \/ Setup(CfgLenz)
  \/ \E p \in RoutePackets : Send(p)
  \/ Poll
  \/ Tick(TickLong)

SpecRoute == Init /\ [][NextRoute]_vars

---------------------------------------------------------------------------
(* SpecFlag: speed, stop and emergency stop for another loco, in both      *)
(* encodings, between a speed and a function command for this decoder      *)

PktOtherStop28   == WithXor(<<5, 96>>)        \* loco 5, 0110-0000: stop
PktOtherEStop28  == WithXor(<<5, 97>>)        \* loco 5, 0110-0001: e-stop
PktOtherSpeed128 == WithXor(<<5, 63, 133>>)   \* loco 5, forward, step 4 of 126
PktOtherStop128  == WithXor(<<5, 63, 128>>)   \* loco 5, forward, stop
PktOtherEStop128 == WithXor(<<5, 63, 129>>)   \* loco 5, forward, e-stop
PktOtherLong     == WithXor(<<196, 210, 68>>) \* loco 1234, reverse, step 5

FlagPackets ==
  {PktOtherLoco, PktOtherStop28, PktOtherEStop28, PktOtherSpeed128,
   PktOtherStop128, PktOtherEStop128, PktOtherLong, PktSpeed28R, PktF0F4}

NextFlag ==
  \/ Setup(CfgLenz)
  \/ \E p \in FlagPackets : Send(p)
  \/ Poll

SpecFlag == Init /\ [][NextFlag]_vars

---------------------------------------------------------------------------
(* SpecSpeed: every 14/28-step instruction byte 01RG-GGGG for this loco *)

Speed28Packets == { WithXor(<<3, i>>) : i \in 64 .. 127 }

NextSpeed ==
  \/ Setup(CfgLenz)
  \/ \E p \in Speed28Packets : Send(p)
  \/ Poll

SpecSpeed == Init /\ [][NextSpeed]_vars

---------------------------------------------------------------------------
(* SpecLenz: a Lenz command station switches the handheld addresses        *)
(* 1 .. MaxHandheld; it starts anywhere and goes on to the next address    *)

\* the basic accessory packet 10AA-AAAA 1aaa-CTTP a Lenz LZV100 sends for
\* the handheld address h: C = 1, P = 0
LenzPacket(h) ==
  LET d   == (h - 1) \div 4
      msb == d \div 64
      lsb == (d + 1) % 64
      tt  == (h - 1) % 4
  IN WithXor(<<128 + lsb, 128 + ((7 - msb) * 16) + 8 + (tt * 2)>>)

SendHandheld(h) ==
  /\ dccMessage.isReady = 0
  /\ obs.h = 0 \/ h = obs.h + 1
  /\ attached
  /\ dccMessage' = PublishBuffer(dccMessage, AsArray(LenzPacket(h)), 3)
  /\ obs' = [obs EXCEPT !.pending = TRUE, !.flipped = FALSE, !.h = h]
  /\ UNCHANGED <<attached, dccrecState, tempByte, dccrec, dcc, cvMessage,
                 backup, locoCmd, locoMessage, accCmd, accMessage, cvCmd,
                 millis, ret, sketch, input, driver, generic, half>>

NextLenz ==
  \/ Setup(CfgLenz)
  \/ \E h \in 1 .. MaxHandheld : SendHandheld(h)
  \/ Poll

SpecLenz == Init /\ [][NextLenz]_vars

---------------------------------------------------------------------------
(* SpecAccRange: the three command stations, and basic accessory packets   *)
(* whose address bits and device bits are all 0, all 1, or in between      *)

CfgRoco == [loco |-> <<3, NoAddress>>, acc |-> <<1, NoAddress>>, master |-> Roco]
CfgOpenDCC ==
  [loco |-> <<3, NoAddress>>, acc |-> <<1, NoAddress>>, master |-> OpenDCC]

\* 10AA-AAAA 1aaa-1TTP with AA-AAAA = lsb, aaa = a and TTP = dev
AccRangePackets ==
  { WithXor(<<128 + lsb, 128 + (a * 16) + 8 + dev>>) :
      lsb \in {0, 1, 63}, a \in {0, 7}, dev \in {0, 7} }

NextAccRange ==
  \/ \E cfg \in {CfgRoco, CfgLenz, CfgOpenDCC} : Setup(cfg)
  \/ \E p \in AccRangePackets : Send(p)
  \/ Poll

SpecAccRange == Init /\ [][NextAccRange]_vars

---------------------------------------------------------------------------
(* SpecForeign: accessory packets for other decoders, of every length,     *)
(* between commands for this decoder, under Lenz and under OpenDCC         *)

PktOtherAccDev == WithXor(<<133, 250>>)       \* decoder 4 (Lenz), device 2
PktOtherAcc5   == WithXor(<<134, 248>>)       \* decoder 5 (Lenz), device 0
PktOtherAccExt == WithXor(<<133, 113, 5>>)    \* decoder 4 (Lenz), extended
PktOtherAccPom == WithXor(<<133, 248, 236, 2, 85>>)  \* decoder 4, CV access
PktAccZero     == WithXor(<<128, 248>>)       \* all address bits 0, device 0

ForeignPackets ==
  {PktAcc, PktOtherAcc, PktOtherAccDev, PktOtherAcc5, PktOtherAccExt,
   PktOtherAccPom, PktAccZero}

NextForeign ==
  \/ \E cfg \in {CfgLenz, CfgOpenDCC} : Setup(cfg)
  \/ \E p \in ForeignPackets : Send(p)
  \/ Poll

SpecForeign == Init /\ [][NextForeign]_vars

---------------------------------------------------------------------------
(* SpecCvOps: CV access with each of the four CC values and with CV        *)
(* numbers up to 1024, on the main behind a 7-bit loco address, a 14-bit   *)
(* loco address and an accessory address and, after a reset packet, in     *)
(* Service Mode.  SpecPom: CV access on the main, where two packets have   *)
(* one byte less or one byte more than the long form.                      *)

PktSmBit       == WithXor(<<121, 255, 251>>)  \* 0111-1001: bit 3 of CV 512, write 1
PktSmReserved  == WithXor(<<115, 255, 0>>)    \* 0111-0011: CC = 00, CV 1024
PktPomBit      == WithXor(<<3, 232, 7, 229>>) \* loco 3, 1110-1000: bit 5 of CV 8, verify 0
PktPomLong     == WithXor(<<192, 3, 239, 255, 170>>)  \* loco 3, long address,
                                              \* 1110-1111: write CV 1024 := 170
PktPomLongCut  == WithXor(<<192, 3, 236, 2>>) \* loco 3, long address, 1110-1100,
                                              \* one byte follows
PktPomShortMore == WithXor(<<3, 236, 2, 85, 0>>)  \* loco 3, 1110-1100, three
                                              \* bytes and one more follow

CvOpsPackets ==
  {PktReset, PktSmWrite, PktSmVerify, PktSmBit, PktSmReserved,
   PktPomBit, PktPomLong, PktAccPom}

\* the programming track carries reset and Service Mode packets only, and
\* the main carries no Service Mode packets
SendCv(p) ==
  /\ p[1] \in 112 .. 127 => cvMessage.inServiceMode
  /\ p[1] \in 1 .. 111 \/ p[1] >= 128 => ~cvMessage.inServiceMode
  /\ Send(p)

NextCvOps ==
  \/ Setup(CfgLenz)
  \/ \E p \in CvOpsPackets : SendCv(p)
  \/ Poll

SpecCvOps == Init /\ [][NextCvOps]_vars

PomPackets ==
  {PktPom, PktPomLong, PktAccPom, PktPomLongCut, PktPomShortMore}

NextPom ==
  \/ Setup(CfgLenz)
  \/ \E p \in PomPackets : Send(p)
  \/ Poll

SpecPom == Init /\ [][NextPom]_vars

\* SpecPairs: the same CV access on the main sent again after packets of
\* another kind
PairPackets == {PktPom, PktPomVerify, PktF0F4, PktAcc}

NextPairs ==
  \/ Setup(CfgLenz)
  \/ \E p \in PairPackets : Send(p)
  \/ Poll

SpecPairs == Init /\ [][NextPairs]_vars

\* SpecWindow: packets for this decoder arrive on the programming track while
\* the Service Mode window is open, and after its timeout
WindowPackets ==
  {PktReset, PktSmWrite, PktSpeed28, PktF0F4, PktAcc, PktPom}

NextWindow ==
  \/ Setup(CfgLenz)
  \/ \E p \in WindowPackets : Send(p)
  \/ Poll
  \/ Tick(TickLong)

SpecWindow == Init /\ [][NextWindow]_vars

\* SpecRace: input() taken statement by statement, with the capture
\* interrupt completing a packet between any two of its parts.  The checksum
\* loop and the dispatch are each taken as one step.
RacePackets == {PktSpeed28, PktSpeed28R, PktF0F4, PktAcc}

NextRace ==
  \/ Setup(CfgLenz)
  \/ \E p \in RacePackets : Publish(p)
  \/ InputTest
  \/ InputClassify
  \/ InputClear

SpecRace == Init /\ [][NextRace]_vars

\* SpecNoAddr: a sketch that calls attach() and selects the command station,
\* and never calls setMyAddress
Attach(master) ==
  /\ ~attached
  /\ AttachReceiver
  /\ dcc' = [dcc EXCEPT !.errorXOR = 0]
  /\ accCmd' = [accCmd EXCEPT !.myMaster = master]
  /\ obs' = [obs EXCEPT !.pending = FALSE, !.bit = 2, !.ones = 0,
                         !.fed = <<>>]
  /\ UNCHANGED <<cvMessage, backup, locoCmd, locoMessage, accMessage, cvCmd,
                 millis, ret, sketch, input>>

NoAddrPackets ==
  {PktSpeed28, PktEStop28, PktSpeed128, PktF0F4, PktPom, PktLongMax,
   PktPomLong, PktAccZero, PktAcc, PktAccMax, PktAccExt, PktAccPom}

NextNoAddr ==
  \/ \E master \in {Roco, Lenz, OpenDCC} : Attach(master)
  \/ \E p \in NoAddrPackets : Send(p)
  \/ Poll

SpecNoAddr == Init /\ [][NextNoAddr]_vars

\* SpecBits: the sketch holds any byte in its CV 8 and receives, on the
\* main, every bit operation 111K-DBBB on it, a byte write and a byte verify
InitBits ==
  \E x \in 0 .. Uint8 - 1 :
    /\ Init!1 /\ Init!2 /\ Init!3 /\ Init!4 /\ Init!5 /\ Init!6 /\ Init!7
    /\ Init!8 /\ Init!9 /\ Init!10 /\ Init!11 /\ Init!12 /\ Init!13
    /\ Init!14 /\ Init!15
    /\ sketch = [myCvs |-> x, printed |-> "none"]
    /\ Init!17 /\ Init!18 /\ Init!19 /\ Init!20
    /\ Init!21

PktPomBitOp(k, d, b) ==
  WithXor(<<3, 232, SketchCv - 1, 224 + (k * 16) + (d * 8) + b>>)
PktPomWrite8  == WithXor(<<3, 236, SketchCv - 1, 85>>)  \* loco 3, write 85
PktPomVerify8 == WithXor(<<3, 228, SketchCv - 1, 85>>)  \* loco 3, verify 85

BitsPackets ==
  {PktPomBitOp(k, d, b) : k \in 0 .. 1, d \in 0 .. 1, b \in 0 .. 7}
    \cup {PktPomWrite8, PktPomVerify8}

\* the command station sends each operation as one pair, and the next packet
\* completes after loop() has acted on the one before; the sketch is
\* followed up to its first report
SendPair(p) ==
  /\ ret # "true"
  /\ sketch.printed = "none"
  /\ obs.cvRun = 1 => p = obs.cvLast
  /\ obs.cvRun = 2 => p # obs.cvLast
  /\ Send(p)

\* loop() calls input() again after it has acted on the call before
PollLoop == ret # "true" /\ Poll

NextBits ==
  \/ Setup(CfgLenz)
  \/ \E p \in BitsPackets : SendPair(p)
  \/ PollLoop
  \/ cv_operation

SpecBits == InitBits /\ [][NextBits]_vars

---------------------------------------------------------------------------
(* Properties of the packet assembler *)

InPreamble == dccrecState \in {"WAIT_PREAMBLE", "WAIT_START_BIT"}

\* a 0-bit was fed in this step after a run of at least one 1-bit
ZeroAfterRun == obs.ones > 0 /\ obs'.ones = 0 /\ obs'.bit = 0

\* C1: while waiting for the preamble the bit count is the number of 1-bits
\* since the last 0-bit, packet completion, abort or attach; the assembler
\* moves from WAIT_PREAMBLE to WAIT_START_BIT only on a 1-bit that is at least
\* the 11th of such a run; a 0-bit after a run of at most 10 leaves it waiting
\* for the preamble, and a 0-bit after a run of 11 or more puts it in
\* WAIT_DATA with a zeroed packet buffer and size counter 0.
C1_Preamble ==
  /\ [](dccrecState = "WAIT_PREAMBLE" => dccrec.bitCount = obs.ones)
  /\ [][ /\ (dccrecState = "WAIT_PREAMBLE" /\ dccrecState' = "WAIT_START_BIT"
               => obs'.bit = 1 /\ obs'.ones >= 11)
         /\ (InPreamble /\ ZeroAfterRun /\ obs.ones <= 10
               => dccrecState' = "WAIT_PREAMBLE" /\ dccrec'.bitCount = 0)
         /\ (InPreamble /\ ZeroAfterRun /\ obs.ones >= 11
               => /\ dccrecState' = "WAIT_DATA"
                  /\ dccrec'.tempMessage = ZeroData
                  /\ dccrec'.tempMessageSize = 0
                  /\ dccrec'.bitCount = 0) ]_vars

\* a packet has just been started by the 0-bit that followed exactly 11 1-bits
C1_Witness ==
  /\ dccrecState = "WAIT_DATA"
  /\ obs.bit = 0
  /\ obs.run = 11
  /\ dccrec.bitCount = 0
  /\ dccrec.tempMessageSize = 0

\* C2: a published packet (isReady set) has a size in 3 .. 6
C2_PublishedSize == dccMessage.isReady = 1 => dccMessage.size \in 3 .. 6

---------------------------------------------------------------------------
(* Properties of Dcc::input *)

\* input() was called in this step and returned true
PollTrue ==
  /\ attached /\ attached'
  /\ dccMessage.isReady = 1
  /\ dccMessage'.isReady = 0

\* input() was called in this step and returned false, after a call that
\* had returned something else
PollFalse == attached' = attached /\ ret' = "false" /\ ret # "false"

DecoderUnchanged ==
  UNCHANGED <<cvMessage, backup, locoCmd, locoMessage, accCmd, accMessage,
              cvCmd>>

\* what C3 asks of a call that read a packet with a checksum error
XorOutcome ==
  /\ ret' = "true"
  /\ dcc'.cmdType = "IgnoreCmd"
  /\ dcc'.errorXOR = (dcc.errorXOR + 1) % 256
  /\ DecoderUnchanged

\* C3: when input() reads a packet whose bytes XOR to a nonzero value it
\* returns true, sets cmdType to IgnoreCmd, counts one more error in errorXOR
\* and leaves LocoState, AccessoryState, CvAccessState, the backup and its
\* counter, the Service Mode flag and timer and the retransmission memories
\* unchanged; a valid packet with one bit inverted is such a packet.
C3_ChecksumError ==
  [][ /\ (PollTrue /\ Checksum(Pkt(dccMessage)) # 0 => XorOutcome)
      /\ (PollTrue /\ obs.flipped => XorOutcome) ]_vars

\* the second checksum error was read while the Service Mode window was
\* open and the first copy of a CV access packet was in the backup
C3_Witness ==
  /\ ret = "true"
  /\ dccMessage.isReady = 0
  /\ obs.lastVia = "xor"
  /\ obs.flipped
  /\ dcc.errorXOR = 2
  /\ dcc.cmdType = "IgnoreCmd"
  /\ cvMessage.inServiceMode
  /\ backup.count = 1
  /\ accMessage.byte1_old = 248

\* C4: input() returns true exactly when a packet was published since the
\* last call that returned true, which is when isReady is set; a call that
\* returns true has set cmdType and cleared isReady; a call that returns
\* false changes nothing but its result.
C4_Poll ==
  /\ [](attached => (obs.pending <=> dccMessage.isReady = 1))
  /\ [][ /\ (PollTrue => /\ obs.pending
                         /\ ret' = "true"
                         /\ dcc'.cmdType # "Unknown"
                         /\ ~obs'.pending)
         /\ (attached /\ attached' /\ ret' = "true" /\ ret # "true" => PollTrue)
         /\ (PollFalse => /\ ~obs.pending
                          /\ dccMessage.isReady = 0
                          /\ UNCHANGED <<attached, dccrecState, tempByte,
                                         dccrec, dccMessage, dcc, millis>>
                          /\ DecoderUnchanged) ]_vars

\* a call returned false after an earlier call had reported a speed command,
\* which cmdType still shows
C4_Witness ==
  /\ ret = "false"
  /\ ~obs.pending
  /\ dccMessage.isReady = 0
  /\ dcc.cmdType = "MyLocoSpeedCmd"
  /\ locoCmd.speed = 5

---------------------------------------------------------------------------
(* Properties of the CV access decoder *)

\* input() read a CV access packet in this step
CvStep == PollTrue /\ obs'.idn

\* the long-form payload of the CV access packet in the exchange buffer
CvPayload ==
  LET o == IF dccMessage.data[0] >= 112 /\ dccMessage.data[0] <= 127 THEN 0
           ELSE IF dccMessage.size = 6 THEN 2 ELSE 1
  IN <<dccMessage.data[o], dccMessage.data[o + 1], dccMessage.data[o + 2]>>

\* C5: of a run of identical CV access packets, in Service Mode or on the
\* main, exactly the second is accepted (SmCmd or MyPomCmd, cvCmd written);
\* the first and the third and later ones are IgnoreCmd and leave cvCmd
\* unchanged, however long the run.
C5_DuplicateRule ==
  [][ CvStep =>
        IF obs'.cvRun = 2
        THEN /\ dcc'.cmdType = (IF obs.lastSm THEN "SmCmd" ELSE "MyPomCmd")
             /\ cvCmd'.number = (Bits(CvPayload[1], 0, 2) * 256) + CvPayload[2] + 1
             /\ cvCmd'.value = CvPayload[3]
        ELSE /\ dcc'.cmdType = "IgnoreCmd"
             /\ cvCmd' = cvCmd ]_vars

---------------------------------------------------------------------------
(* Properties of the Service Mode window *)

\* input() read a packet with a correct checksum in this step
PollValid == PollTrue /\ Checksum(Pkt(dccMessage)) = 0

\* C6: a packet is classified SmCmd only if a reset packet (correct checksum,
\* first two bytes 0) was read earlier
\* and every gap between consecutive qualifying packets (reset, idle,
\* 0111-xxxx) from that reset up to and including this packet was shorter
\* than the Service Mode timeout.
C6_SmNeedsReset ==
  [][ PollTrue /\ dcc'.cmdType = "SmCmd"
        => /\ obs.chainOk
           /\ millis - obs.chainLast < 40
           /\ obs'.chainOk
           /\ obs'.chainLast = millis
           /\ IsSmShape(dccMessage) ]_vars

\* the second copy of a Service Mode write was accepted 78 ms after the reset
\* packet, each gap having been 39 ms
C6_Witness ==
  /\ ret = "true"
  /\ dcc.cmdType = "SmCmd"
  /\ millis = 78
  /\ obs.chainOk
  /\ obs.chainLast = 78
  /\ cvCmd.operation = "writeByte"
  /\ cvCmd.number = 3
  /\ cvCmd.value = 85

BackupCleared == backup'.size = 0 /\ backup'.count = 0

\* the backup was cleared and then took the packet as a first copy
BackupRestarted ==
  /\ obs'.idn
  /\ backup'.size = dccMessage.size
  /\ backup'.count = 1

\* C7: while the window is open its timer is the time of the last qualifying
\* packet; when a packet with a correct checksum is read with the window open
\* and the timeout reached, the window is closed and the backup and its
\* counter are cleared, the packet is not SmCmd, and it is dispatched by its
\* first byte: a reset packet is ResetCmd and opens a new window, a first
\* byte 1 .. 127 (0x70 .. 0x7F included) reaches the loco decoder, an idle
\* packet is ignored.
C7_SmTimeout ==
  /\ [](cvMessage.inServiceMode
          => obs.chainOk /\ obs.chainLast = cvMessage.SmTime)
  /\ [][ PollValid /\ cvMessage.inServiceMode /\ millis - obs.chainLast >= 40
           => /\ dcc'.cmdType # "SmCmd"
              /\ BackupCleared \/ BackupRestarted
              /\ IF dccMessage.data[0] = 0
                 THEN /\ dcc'.cmdType = "ResetCmd"
                      /\ cvMessage'.inServiceMode
                      /\ cvMessage'.SmTime = millis
                 ELSE /\ ~cvMessage'.inServiceMode
                      /\ cvMessage'.SmTime = cvMessage.SmTime
              /\ dccMessage.data[0] \in 1 .. 127
                   => /\ locoCmd'.address = dccMessage.data[0]
                      /\ ~locoCmd'.longAddress
              /\ dccMessage.data[0] = 255
                   => dcc'.cmdType = "IgnoreCmd" /\ locoCmd' = locoCmd ]_vars

\* a Service Mode write, stored once in the backup, was read again after the
\* timeout: the window is closed, the backup cleared, and the loco decoder
\* took 124 for a loco address
C7_Witness ==
  /\ ret = "true"
  /\ dccMessage.isReady = 0
  /\ Pkt(dccMessage) = PktSmWrite
  /\ obs.lastSm
  /\ obs.lastLate
  /\ ~cvMessage.inServiceMode
  /\ backup.size = 0
  /\ backup.count = 0
  /\ backup.data[0] = 124
  /\ locoCmd.address = 124
  /\ dcc.cmdType = "IgnoreCmd"

FunctionsOff(loco) ==
  /\ loco.F0F4 = 0 /\ loco.F5F8 = 0 /\ loco.F9F12 = 0
  /\ loco.F13F20 = 0 /\ loco.F21F28 = 0
  /\ \A k \in 0 .. 4 : loco.F29_F68[k] = 0

\* what a reset packet leaves behind, cmdType apart
ResetEffect ==
  /\ locoCmd'.speed = 0
  /\ locoCmd'.forward
  /\ FunctionsOff(locoCmd')
  /\ cvMessage'.inServiceMode
  /\ cvMessage'.SmTime = millis

ResetRead == PollValid /\ Pkt(dccMessage) = <<0, 0, 0>>

\* C8 as stated: every reset packet read gives ResetCmd, speed 0, forward,
\* all functions off, and an open window with a restarted timer.
C8_ResetAlways ==
  [][ ResetRead => dcc'.cmdType = "ResetCmd" /\ ResetEffect ]_vars

\* C8, amended: every reset packet read leaves speed 0, forward, all
\* functions off and an open window with a restarted timer; cmdType is
\* IgnoreCmd when the packet is read inside an open window whose timeout has
\* not been reached, and ResetCmd otherwise.
C8_ResetAmended ==
  [][ ResetRead =>
        /\ ResetEffect
        /\ dcc'.cmdType =
             IF cvMessage.inServiceMode /\ millis - cvMessage.SmTime < 40
             THEN "IgnoreCmd" ELSE "ResetCmd" ]_vars

\* a reset packet was read 39 ms after the one that opened the window
C8_Witness ==
  /\ ret = "true"
  /\ dccMessage.isReady = 0
  /\ Pkt(dccMessage) = PktReset
  /\ obs.lastSm
  /\ ~obs.lastLate
  /\ dcc.cmdType = "IgnoreCmd"
  /\ cvMessage.inServiceMode
  /\ cvMessage.SmTime = 39
  /\ millis = 39

---------------------------------------------------------------------------
(* Properties of the retransmission filters *)

\* input() read, and handed to the loco decoder, the speed packet for this
\* decoder that it had read just before
SpeedRepeated ==
  /\ PollValid
  /\ ~cvMessage.inServiceMode
  /\ obs.lastSpeed # NoPacket
  /\ Pkt(dccMessage) = obs.lastSpeed

\* C9: the second of two consecutive identical loco speed packets for this
\* decoder is IgnoreCmd and changes no state, in both encodings, for speed,
\* stop and emergency stop, in either direction.
C9_SpeedRetransmission ==
  [][ SpeedRepeated
        => /\ dcc'.cmdType = "IgnoreCmd"
           /\ DecoderUnchanged ]_vars

\* input() read an accessory command for this decoder, of three or four
\* bytes, that is the command last reported as MyAccessoryCmd
AccRepeated ==
  LET addr == AccDecoderAddress(accCmd.myMaster, dccMessage)
  IN /\ PollValid
     /\ ~cvMessage.inServiceMode
     /\ dccMessage.data[0] >= 128 /\ dccMessage.data[0] <= 191
     /\ dccMessage.size \in {3, 4}
     /\ \/ addr >= accMessage.myAccAddrFirst /\ addr <= accMessage.myAccAddrLast
        \/ addr = 2047
     /\ obs.accLast = AccCommandOf(addr, dccMessage)

\* C10: once an accessory command for this decoder was reported as
\* MyAccessoryCmd, the identical command is IgnoreCmd for as long as no
\* other command for this decoder is reported, whatever packets for other
\* decoders are read in between.
C10_AccRetransmission ==
  [][ AccRepeated => dcc'.cmdType = "IgnoreCmd" ]_vars

---------------------------------------------------------------------------
(* Properties of the dispatch by the first byte *)

\* input() read a packet with a correct checksum while the window was closed
RouteStep == PollValid /\ ~cvMessage.inServiceMode

\* the accessory decoder has taken the packet in the exchange buffer
AccTook ==
  /\ accCmd'.decoderAddress = AccDecoderAddress(accCmd.myMaster, dccMessage)
  /\ accCmd'.turnout = Bits(dccMessage.data[1], 1, 2) + 1
  /\ accCmd'.position = Bit(dccMessage.data[1], 0)
  /\ locoCmd' = locoCmd
  /\ cvMessage' = cvMessage

\* the loco decoder has taken it, with the address a
LocoTook(a, long) ==
  /\ locoCmd'.address = a
  /\ locoCmd'.longAddress = long
  /\ accCmd' = accCmd
  /\ accMessage' = accMessage
  /\ cvMessage' = cvMessage

\* neither the loco nor the accessory decoder has seen it
BroadcastTook ==
  /\ locoCmd'.address = locoCmd.address
  /\ locoCmd'.longAddress = locoCmd.longAddress
  /\ accCmd' = accCmd
  /\ accMessage' = accMessage
  /\ dcc'.cmdType \in {"ResetCmd", "MyEmergencyStopCmd", "MyLocoSpeedCmd",
                       "IgnoreCmd"}
  /\ dccMessage.data[1] = 0 => dcc'.cmdType = "ResetCmd"

\* C11: a packet with a correct checksum that is read while the Service Mode
\* window is closed is routed by its first byte alone: 0 to the broadcast
\* analysis, 1 .. 127 to the loco decoder with that 7-bit address, 128 .. 191
\* to the accessory decoder, 192 .. 231 to the loco decoder with the 14-bit
\* address (byte0 & 0x3F) * 256 + byte1, and 232 .. 255 is IgnoreCmd and
\* changes no decoder state.
C11_Routing ==
  [][ RouteStep =>
        LET b0 == dccMessage.data[0]
            b1 == dccMessage.data[1]
        IN /\ b0 = 0 => BroadcastTook
           /\ b0 \in 1 .. 127 => LocoTook(b0, FALSE)
           /\ b0 \in 128 .. 191 => AccTook
           /\ b0 \in 192 .. 231 => LocoTook(((b0 % 64) * 256) + b1, TRUE)
           /\ b0 \in 232 .. 255
                => dcc'.cmdType = "IgnoreCmd" /\ DecoderUnchanged ]_vars

\* the packet E7 FF 64 was read with the window closed, after this decoder's
\* loco had been given a speed: the loco decoder holds the address 10239
C11_Witness ==
  /\ ret = "true"
  /\ dccMessage.isReady = 0
  /\ Pkt(dccMessage) = PktLongMax
  /\ ~cvMessage.inServiceMode
  /\ locoCmd.address = 10239
  /\ locoCmd.longAddress
  /\ locoCmd.speed = 5
  /\ dcc.cmdType = "SomeLocoMovesFlag"

\* what a broadcast stop leaves behind
BroadcastStopEffect ==
  /\ locoCmd'.speed = 0
  /\ locoCmd'.forward
  /\ FunctionsOff(locoCmd')

\* C12: with the window closed, a packet with a correct checksum and first
\* byte 0 is ResetCmd when the second byte is 0000-0000, MyEmergencyStopCmd
\* when it is 01DC-0001 and MyLocoSpeedCmd when it is 01DC-0000, and in each
\* of the three cases the speed and the functions of the loco are reset.
C12_Broadcast ==
  [][ RouteStep /\ dccMessage.data[0] = 0 =>
        LET b1 == dccMessage.data[1]
        IN /\ b1 = 0 => dcc'.cmdType = "ResetCmd" /\ BroadcastStopEffect
           /\ Bits(b1, 6, 2) = 1 /\ Bits(b1, 0, 4) = 1
                => dcc'.cmdType = "MyEmergencyStopCmd" /\ BroadcastStopEffect
           /\ Bits(b1, 6, 2) = 1 /\ Bits(b1, 0, 4) = 0
                => dcc'.cmdType = "MyLocoSpeedCmd" /\ BroadcastStopEffect ]_vars

---------------------------------------------------------------------------
(* The framing round trip *)

\* the number of 1-bits the bit sequence s starts with
RECURSIVE LeadOnes(_)
LeadOnes(s) == IF s = <<>> \/ Head(s) = 0 THEN 0 ELSE 1 + LeadOnes(Tail(s))

\* s is a preamble of at least 11 1-bits, a 0 start bit and n bytes that
\* are separated by 0-bits
Framed(s, n) ==
  LET k == LeadOnes(s)
  IN /\ k >= 11
     /\ Len(s) = k + (9 * n)
     /\ \A j \in 0 .. n - 1 : s[k + 1 + (9 * j)] = 0

\* byte j (from 0) of such a stream, the first bit sent being the highest
FramedByte(s, j) ==
  LET at == LeadOnes(s) + 1 + (9 * j)
  IN (s[at + 1] * 128) + (s[at + 2] * 64) + (s[at + 3] * 32) + (s[at + 4] * 16)
       + (s[at + 5] * 8) + (s[at + 6] * 4) + (s[at + 7] * 2) + s[at + 8]

\* s starts a stream of that shape: a preamble that may still grow, or a
\* preamble of at least 11 1-bits, the start bit, and at most six bytes with
\* their separators
FramedPrefix(s) ==
  LET k == LeadOnes(s)
  IN Len(s) > k
       => /\ k >= 11
          /\ Len(s) <= k + (9 * MaxDccSize)
          /\ \A j \in 0 .. MaxDccSize - 1 :
                k + 1 + (9 * j) <= Len(s) => s[k + 1 + (9 * j)] = 0

\* the capture interrupt took the bit b in this step, after other bits
Fed(b) ==
  /\ attached /\ attached'
  /\ obs.fed # <<>>
  /\ obs'.fed # obs.fed
  /\ obs'.bit = b

\* C13: when the assembler, waiting for a preamble with bit count 0, is fed
\* at least 11 1-bits, a 0 start bit, n bytes (3 <= n <= 6), the highest bit
\* first, separated by 0-bits, and a 1 end bit, it publishes nothing before
\* the end bit, and at the end bit publishes a packet of size n whose bytes
\* 0 .. n-1 are the bytes sent, sets isReady, and waits for a preamble again
\* with bit count 0.
C13_Framing ==
  [][ /\ \A b \in {0, 1} :
            Fed(b) /\ FramedPrefix(Append(obs.fed, b))
              => dccMessage' = dccMessage
      /\ \A n \in 3 .. MaxDccSize :
            Fed(1) /\ Framed(obs.fed, n)
              => /\ dccMessage'.isReady = 1
                 /\ dccMessage'.size = n
                 /\ \A j \in 0 .. n - 1 :
                       dccMessage'.data[j] = FramedByte(obs.fed, j)
                 /\ dccrecState' = "WAIT_PREAMBLE"
                 /\ dccrec'.bitCount = 0
                 /\ obs'.fed = <<>> ]_vars

\* after attach() the six bytes 03 64 67 7C 02 55 were fed behind a preamble
\* and closed by an end bit: they are in the exchange buffer, isReady is set
\* and the assembler waits for the next preamble
C13_Witness ==
  /\ attached
  /\ dccrecState = "WAIT_PREAMBLE"
  /\ dccrec.bitCount = 0
  /\ obs.bit = 1
  /\ obs.fed = <<>>
  /\ obs.pending
  /\ dccMessage.isReady = 1
  /\ dccMessage.size = 6
  /\ Pkt(dccMessage) = <<3, 100, 103, 124, 2, 85>>

---------------------------------------------------------------------------
(* Properties of the speed commands *)

\* m is a loco packet whose instruction is a speed command, 01RG-GGGG or
\* 0011-1111
IsSpeedPacket(m) ==
  /\ m.data[0] \in 1 .. 127 \/ m.data[0] \in 192 .. 231
  /\ LET instr == IF m.data[0] >= 192 THEN m.data[2] ELSE m.data[1]
     IN (instr >= 64 /\ instr <= 127) \/ instr = 63

\* the speed step the speed packet m commands: 0 for stop and for
\* emergency stop, 1 .. 28 or 1 .. 126 otherwise
SpeedStepOf(m) ==
  LET long  == m.data[0] >= 192
      instr == IF long THEN m.data[2] ELSE m.data[1]
      data  == IF long THEN m.data[3] ELSE m.data[2]
      raw28 == ((instr % 16) * 2) + ((instr \div 16) % 2)
      raw128 == data % 128
  IN IF instr = 63 THEN (IF raw128 <= 1 THEN 0 ELSE raw128 - 1)
     ELSE (IF raw28 <= 3 THEN 0 ELSE raw28 - 3)

\* input() read a speed packet for a loco outside the listen range
ForeignSpeedRead ==
  /\ RouteStep
  /\ IsSpeedPacket(dccMessage)
  /\ ~IsMySpeedPacket(dccMessage)

\* C14: a speed packet with a correct checksum for an address outside the
\* loco listen range is SomeLocoMovesFlag exactly when it commands a speed
\* step above 0; stop and emergency stop, in the 14/28-step and in the
\* 128-step encoding, are SomeLocoSpeedFlag; speed, direction, emergency
\* stop and the functions are left as they were.
C14_ForeignSpeed ==
  [][ ForeignSpeedRead
        => /\ dcc'.cmdType = IF SpeedStepOf(dccMessage) > 0
                             THEN "SomeLocoMovesFlag"
                             ELSE "SomeLocoSpeedFlag"
           /\ locoCmd' = [locoCmd EXCEPT
                            !.address = locoCmd'.address,
                            !.longAddress = locoCmd'.longAddress] ]_vars

\* input() read a 14/28-step speed packet for this decoder
MySpeed28Read ==
  /\ RouteStep
  /\ IsMySpeedPacket(dccMessage)
  /\ LocoInstruction(dccMessage) >= 64

\* the five bits GGGG-G of 01RG-GGGG, bit 4 being the lowest
Raw28(instr) == ((instr % 16) * 2) + ((instr \div 16) % 2)

\* raw 0 and 1 are stop, 2 and 3 emergency stop with speed 0, 4 .. 31 the
\* speeds 1 .. 28 in the direction R
Speed28Table ==
  LET instr == LocoInstruction(dccMessage)
      raw == Raw28(instr)
  IN /\ raw \in {0, 1} => locoCmd'.speed = 0 /\ ~locoCmd'.emergencyStop
     /\ raw \in {2, 3} => locoCmd'.speed = 0 /\ locoCmd'.emergencyStop
     /\ raw >= 4 => /\ locoCmd'.speed = raw - 3
                    /\ locoCmd'.speed \in 1 .. 28
                    /\ ~locoCmd'.emergencyStop
                    /\ locoCmd'.forward = ((instr \div 32) % 2 = 1)

\* C15 as stated: a 14/28-step speed packet for this decoder decodes by the
\* table above, and the instruction byte 0110-0100 gives speed 1, forward.
C15_Speed28 ==
  [][ MySpeed28Read
        => /\ Speed28Table
           /\ LocoInstruction(dccMessage) = 100
                => locoCmd'.speed = 1 /\ locoCmd'.forward ]_vars

\* C15, amended: a 14/28-step speed packet for this decoder decodes by the
\* table above; the instruction byte 0110-0100 has the raw value 8 and gives
\* speed 5, forward, and it is 0110-0010, raw value 4, that gives speed 1,
\* forward.
C15_Speed28Amended ==
  [][ MySpeed28Read
        => /\ Speed28Table
           /\ LocoInstruction(dccMessage) = 100
                => locoCmd'.speed = 5 /\ locoCmd'.forward
           /\ LocoInstruction(dccMessage) = 98
                => locoCmd'.speed = 1 /\ locoCmd'.forward ]_vars

\* the packet 03 64 67 was read and reported as a speed command: speed 5,
\* forward
C15_Witness ==
  /\ ret = "true"
  /\ dccMessage.isReady = 0
  /\ Pkt(dccMessage) = <<3, 100, 103>>
  /\ dcc.cmdType = "MyLocoSpeedCmd"
  /\ locoCmd.address = 3
  /\ locoCmd.speed = 5
  /\ locoCmd.forward
  /\ ~locoCmd.emergencyStop
  /\ backup.count = 0
  /\ accCmd.turnout = 0

---------------------------------------------------------------------------
(* Properties of the accessory decoder *)

\* input() read the packet of the handheld address obs.h
HandheldRead ==
  /\ RouteStep
  /\ obs.h >= 1
  /\ Pkt(dccMessage) = LenzPacket(obs.h)

\* C16: with myMaster = Lenz the basic accessory packet of every handheld
\* address h in 1 .. 1024 (MSB = ((h-1) div 4) div 64, LSB = ((h-1) div 4
\* + 1) mod 64, TT = (h-1) mod 4) gives decoderAddress = (h-1) div 4,
\* turnout = TT + 1 and outputAddress = decoderAddress * 4 + turnout = h;
\* 64 is added in the decoding exactly when LSB is 0.
C16_LenzRoundTrip ==
  [][ HandheldRead =>
        LET h   == obs.h
            lsb == dccMessage.data[0] % 64
            msb == 7 - ((dccMessage.data[1] \div 16) % 8)
        IN /\ accCmd.myMaster = Lenz
           /\ msb = ((h - 1) \div 4) \div 64
           /\ lsb = (((h - 1) \div 4) + 1) % 64
           /\ accCmd'.decoderAddress = (h - 1) \div 4
           /\ accCmd'.turnout = ((h - 1) % 4) + 1
           /\ accCmd'.outputAddress = h
           /\ accCmd'.outputAddress
                = (accCmd'.decoderAddress * 4) + accCmd'.turnout
           /\ accCmd'.decoderAddress
                = (msb * 64) + lsb - 1 + (IF lsb = 0 THEN 64 ELSE 0) ]_vars

\* the handheld address 253 (MSB 0, LSB 0, TT 0: 80 F8 78) was read:
\* decoder address 63, turnout 1
C16_Witness ==
  /\ ret = "true"
  /\ dccMessage.isReady = 0
  /\ obs.h = 253
  /\ Pkt(dccMessage) = <<128, 248, 120>>
  /\ accCmd.decoderAddress = 63
  /\ accCmd.turnout = 1
  /\ accCmd.outputAddress = 253
  /\ dcc.cmdType = "AnyAccessoryCmd"

\* the packet last read by input() was an accessory packet
AccProcessed ==
  /\ ret = "true"
  /\ dccMessage.isReady = 0
  /\ ~obs.lastSm
  /\ Checksum(Pkt(dccMessage)) = 0
  /\ dccMessage.data[0] \in 128 .. 191

\* C17: after input() has read an accessory packet, whatever myMaster and
\* the address bits, decoderAddress is in 0 .. 511, outputAddress in
\* 1 .. 2048, turnout in 1 .. 4, device in 1 .. 8 and position in 0 .. 1.
C17_AccRanges ==
  AccProcessed
    => /\ accCmd.decoderAddress \in 0 .. 511
       /\ accCmd.outputAddress \in 1 .. 2048
       /\ accCmd.turnout \in 1 .. 4
       /\ accCmd.device \in 1 .. 8
       /\ accCmd.position \in 0 .. 1

\* input() read an accessory packet for another decoder
ForeignAccRead ==
  /\ RouteStep
  /\ dccMessage.data[0] \in 128 .. 191
  /\ ForeignPair(dccMessage) # NoPacket

\* C18: an accessory packet whose corrected decoder address is outside the
\* listen range is AnyAccessoryCmd, and its decoder address and device are
\* remembered, when that pair differs from the remembered one; it is
\* IgnoreCmd when the pair is the remembered one, and so when it directly
\* follows a packet for the same foreign decoder address and device; it is
\* never MyAccessoryCmd or MyPomCmd.
C18_ForeignAccessory ==
  [][ ForeignAccRead =>
        LET pair == ForeignPair(dccMessage)
            old  == <<accMessage.decoderAddress_old, accMessage.device_old>>
        IN /\ pair # old
                => /\ dcc'.cmdType = "AnyAccessoryCmd"
                   /\ accMessage'.decoderAddress_old = pair[1]
                   /\ accMessage'.device_old = pair[2]
           /\ pair = old
                => dcc'.cmdType = "IgnoreCmd" /\ accMessage' = accMessage
           /\ obs.foreignLast = pair => dcc'.cmdType = "IgnoreCmd"
           /\ dcc'.cmdType \notin {"MyAccessoryCmd", "MyPomCmd"}
           /\ obs'.foreignLast = pair ]_vars

\* after a command for this decoder, the packet 85 F8 7D for decoder 4 was
\* read twice in a row: the second one is ignored
C18_Witness ==
  /\ ret = "true"
  /\ dccMessage.isReady = 0
  /\ Pkt(dccMessage) = PktOtherAcc
  /\ dcc.cmdType = "IgnoreCmd"
  /\ obs.foreignLast = <<4, 0>>
  /\ accMessage.decoderAddress_old = 4
  /\ accMessage.device_old = 0
  /\ accMessage.byte1_old = 248
  /\ accCmd.decoderAddress = 4

---------------------------------------------------------------------------
(* Properties of the decoded CV access *)

\* the number of address bytes of the packet m read on the main
AddressBytes(m) == IF m.data[0] \in 1 .. 127 THEN 1 ELSE 2

\* the three bytes CCVV VVVVVVVV DDDDDDDD that start at byte o of m
PayloadAt(m, o) == <<m.data[o], m.data[o + 1], m.data[o + 2]>>

\* cvCmd', after the packet was read, holds the payload pl
CvHolds(pl) ==
  LET cc == (pl[1] \div 4) % 4
  IN /\ cvCmd'.number = 1 + ((pl[1] % 4) * 256) + pl[2]
     /\ cvCmd'.number \in 1 .. 1024
     /\ cvCmd'.value = pl[3]
     /\ cvCmd'.operation = CASE cc = 0 -> "reserved"
                              [] cc = 1 -> "verifyByte"
                              [] cc = 2 -> "bitManipulation"
                              [] cc = 3 -> "writeByte"
     /\ cc = 2 => /\ cvCmd'.writecmd = (pl[3] \div 16) % 2
                  /\ cvCmd'.bitvalue = (pl[3] \div 8) % 2
                  /\ cvCmd'.bitposition = pl[3] % 8

C20_PomOffset ==
  [][ PollTrue /\ dcc'.cmdType = "MyPomCmd"
        => LET o == AddressBytes(dccMessage)
           IN /\ dccMessage.data[o] \div 16 = 14
              /\ CvHolds(PayloadAt(dccMessage, o)) ]_vars

---------------------------------------------------------------------------
(* Properties of CV access on the main, of the bit operations, of attach   *)
(* and detach, and of the hand-over between interrupt and loop()           *)

\* the packet read was handed to Backup::identical on the main
PomStep == CvStep /\ ~cvMessage.inServiceMode

\* C21: on the main every pair of identical CV access packets is one
\* operation of its own: the first packet of a pair is not reported, the
\* second is reported as MyPomCmd, also when the same pair was sent before
\* and only packets of another kind were read in between
C21_PomPairs ==
  [][PomStep =>
       /\ obs'.pair = 1 => dcc'.cmdType # "MyPomCmd"
       /\ obs'.pair = 2 => dcc'.cmdType = "MyPomCmd"]_vars

\* cv_operation runs on a bit operation
BitOpStep ==
  /\ ret = "true" /\ ret' = "none"
  /\ dcc.cmdType = "MyPomCmd"
  /\ cvCmd.operation = "bitManipulation"

\* C22: for every byte x and every decoded bit position p and bit value v,
\* writeBit(x) is x with bit p set to v and every other bit as it was,
\* verifyBit(x) tells whether bit p of x is v, verifyBit(writeBit(x)) is
\* true and writeBit(writeBit(x)) = writeBit(x); the sketch stores or
\* reports exactly that, and cvCmd and the decoder state stay as they were
C22_BitOps ==
  [][BitOpStep =>
       LET x == sketch.myCvs
           p == cvCmd.bitposition
           v == cvCmd.bitvalue
           y == writeBit(cvCmd, x)
       IN /\ p \in 0 .. 7 /\ v \in 0 .. 1
          /\ y \in 0 .. Uint8 - 1
          /\ \A i \in 0 .. 7 : Bit(y, i) = IF i = p THEN v ELSE Bit(x, i)
          /\ verifyBit(cvCmd, x) <=> Bit(x, p) = v
          /\ verifyBit(cvCmd, y)
          /\ writeBit(cvCmd, y) = y
          /\ cvCmd.writecmd = 1 => sketch'.myCvs = y
          /\ cvCmd.writecmd = 0 =>
                /\ sketch'.myCvs = x
                /\ sketch'.printed = "Bits are equal" <=> Bit(x, p) = v
          /\ UNCHANGED <<cvCmd, dcc, cvMessage, backup, locoCmd, locoMessage,
                         accCmd, accMessage, dccMessage>>]_vars

\* the sketch wrote bit 5 := 0 into its CV, which now holds 1101-1111
C22_Witness ==
  /\ sketch.myCvs = 223
  /\ sketch.printed = "Write Bit"
  /\ cvCmd.operation = "bitManipulation"
  /\ cvCmd.writecmd = 1 /\ cvCmd.bitposition = 5 /\ cvCmd.bitvalue = 0
  /\ ret = "none"

\* attach() returns
AttachStep == ~attached /\ attached'

\* the receive path as the first attach() leaves it
FirstAttach(state, rec, byte, msg, drv) ==
  /\ state = "WAIT_PREAMBLE"
  /\ rec.bitCount = 0
  /\ byte = 0
  /\ msg.isReady = 0 /\ msg.size = 0
  /\ drv = [dccHalfBit |-> 0, edge |-> 0]

\* C23: after detach() and attach() the receive path is in the state the
\* first attach() left it in, whatever was received before and wherever
\* detach() fell: the assembler waits for a preamble with bit count 0 and an
\* empty byte, no packet is ready, the size is 0, and the half-bit
\* expectation and the trigger edge of the driver have their first values
C23_AttachClean ==
  [][AttachStep =>
       FirstAttach(dccrecState', dccrec', tempByte', dccMessage', driver')]_vars

\* the command types that tell the sketch a packet is for this decoder
MyCmds ==
  {"MyLocoSpeedCmd", "MyEmergencyStopCmd", "MyLocoF0F4Cmd", "MyLocoF5F8Cmd",
   "MyLocoF9F12Cmd", "MyLocoF13F20Cmd", "MyLocoF21F28Cmd", "MyLocoF29F36Cmd",
   "MyLocoF37F44Cmd", "MyLocoF45F52Cmd", "MyLocoF53F60Cmd",
   "MyLocoF61F68Cmd", "MyBinaryStateCmd", "MyBinaryStateResetCmd",
   "MyAccessoryCmd", "MyPomCmd"}

\* setMyAddress was called for neither domain
NoAddressSet ==
  /\ locoMessage.myLocoAddressFirst = NoAddress
  /\ locoMessage.myLocoAddressLast = NoAddress
  /\ accMessage.myAccAddrFirst = NoAddress
  /\ accMessage.myAccAddrLast = NoAddress

\* C24: as long as setMyAddress was never called, no loco packet and no
\* accessory packet is reported as one for this decoder, whatever command
\* station was selected
C24_NoAddress == NoAddressSet => dcc.cmdType \notin MyCmds

ClassifyStep == input.pc = "checked" /\ input'.pc = "classified"

\* C26: under every interleaving of the capture interrupt with a running
\* input(), the bytes and the size that input() classifies and decodes are
\* those over which it verified the checksum, also when a new packet
\* completes while input() runs
C26_NoTornRead ==
  [][ClassifyStep => Pkt(dccMessage) = obs.xored]_vars

\* C27: a published packet is read by some call of input() unless a later
\* packet overwrote it first: as long as the newest packet was not read,
\* the buffer is flagged ready, so the clearing of the flag at the end of
\* input() never discards a packet published after that call started
C27_NewestSurvives == attached /\ obs.pending => dccMessage.isReady = 1

\* a packet with a correct checksum is read while the window is open
WindowStep == PollValid /\ cvMessage.inServiceMode

\* C28: a packet read while the Service Mode window is open and its timeout
\* was not reached is SmCmd or IgnoreCmd, changes neither the loco state nor
\* the accessory state and leaves the window open, also when it is a loco,
\* accessory or CV access packet for this decoder; the first packet read
\* after the timeout closes the window, unless it is a reset packet, and is
\* not classified as a Service Mode command
C28_WindowShields ==
  [][WindowStep =>
       IF millis - cvMessage.SmTime < SmTimeOut
       THEN /\ dcc'.cmdType \in {"SmCmd", "IgnoreCmd"}
            /\ UNCHANGED <<locoCmd, accCmd, accMessage>>
            /\ cvMessage'.inServiceMode
       ELSE /\ dcc'.cmdType # "SmCmd"
            /\ cvMessage'.inServiceMode <=> Pkt(dccMessage) = PktReset]_vars

\* the function packet for this decoder was read inside the window 39 ms
\* after the reset packet and was ignored: F0 and F1 are still off
C28_Witness ==
  /\ ret = "true"
  /\ Pkt(dccMessage) = PktF0F4
  /\ dccMessage.isReady = 0
  /\ obs.lastSm /\ ~obs.lastLate
  /\ millis = 39
  /\ cvMessage.inServiceMode
  /\ dcc.cmdType = "IgnoreCmd"
  /\ locoCmd.F0F4 = 0

\* the bits of six bytes, their separators and seven bits of a seventh byte
\* follow the start bit
BitsBeforeOverflow == (MaxDccSize * 9) + 7

\* the capture interrupt takes the last bit of a seventh byte
SeventhByteStep ==
  /\ \E b \in {0, 1} : Fed(b)
  /\ Len(obs.fed) = LeadOnes(obs.fed) + 1 + BitsBeforeOverflow

\* C29: when the last bit of a seventh data byte arrives the packet is
\* dropped: the assembler waits for a preamble with bit count 0, nothing is
\* published and the exchange buffer and the six bytes stored stay as they
\* were; tempMessageSize never exceeds 6, and a data byte is stored at index
\* tempMessageSize < 6 and nowhere else
C29_Oversize ==
  /\ [](dccrec.tempMessageSize \in 0 .. MaxDccSize)
  /\ [][SeventhByteStep =>
          /\ dccrecState = "WAIT_DATA"
          /\ dccrec.tempMessageSize = MaxDccSize
          /\ dccrecState' = "WAIT_PREAMBLE"
          /\ dccrec'.bitCount = 0
          /\ dccMessage' = dccMessage
          /\ dccrec'.tempMessage = dccrec.tempMessage
          /\ dccrec'.tempMessageSize = MaxDccSize]_vars
  /\ [][dccrecState = "WAIT_DATA" /\ dccrec'.tempMessage # dccrec.tempMessage
          => /\ dccrec.tempMessageSize < MaxDccSize
             /\ \A i \in 0 .. MaxDccSize - 1 :
                  i # dccrec.tempMessageSize
                    => dccrec'.tempMessage[i] = dccrec.tempMessage[i]]_vars

\* the seventh byte 2B of 03 64 67 7C 02 55 2B was shifted in and dropped:
\* six bytes are stored, nothing was published, and the assembler waits for
\* a preamble
C29_Witness ==
  /\ attached
  /\ dccrecState = "WAIT_PREAMBLE"
  /\ dccrec.bitCount = 0
  /\ dccrec.tempMessageSize = MaxDccSize
  /\ dccrec.tempMessage[5] = 85
  /\ tempByte = 43
  /\ obs.fed = <<>>
  /\ ~obs.pending
  /\ dccMessage.isReady = 0
  /\ dccMessage.size = 0

\* the bits the assembler took since the start bit of the packet in progress
SinceStart == Len(obs.fed) - (LeadOnes(obs.fed) + 1)

\* C30: once 20 1-bits in a row were fed, whatever the assembler was doing
\* when the run began, it waits for the start bit; a preamble, a 0 start bit,
\* n bytes (1 <= n <= 6) and a 1 end bit fed after a corrupted packet are
\* published as sent; the assembler leaves WAIT_END_BIT with the next bit and
\* never takes more than six bytes, their separators and eight bits while
\* it stays in WAIT_DATA and WAIT_END_BIT
C30_Resync ==
  /\ [](attached /\ obs.streak >= 20 => dccrecState = "WAIT_START_BIT")
  /\ [](attached /\ dccrecState \in {"WAIT_DATA", "WAIT_END_BIT"}
          => SinceStart <= BitsBeforeOverflow)
  /\ [][ /\ \A b \in {0, 1} :
              Fed(b) /\ dccrecState = "WAIT_END_BIT"
                => dccrecState' # "WAIT_END_BIT"
        /\ \A n \in 1 .. MaxDccSize :
              Fed(1) /\ Framed(obs.fed, n)
                => /\ dccMessage'.isReady = 1
                   /\ dccMessage'.size = n
                   /\ \A j \in 0 .. n - 1 :
                         dccMessage'.data[j] = FramedByte(obs.fed, j)
                   /\ dccrecState' = "WAIT_PREAMBLE" ]_vars

\* 19 1-bits in a row were fed and the assembler still waits for a preamble:
\* the run began in WAIT_DATA with no bit of the byte taken, its first eight
\* bits were stored as a byte FF, the ninth ended and published the packet
\* 03 64 FF, and ten more were counted as a preamble
C30_Witness ==
  /\ attached
  /\ obs.streak = 19
  /\ dccrecState = "WAIT_PREAMBLE"
  /\ dccrec.bitCount = 10
  /\ dccMessage.isReady = 1
  /\ dccMessage.size = 3
  /\ dccMessage.data[0] = 3
  /\ dccMessage.data[1] = 100
  /\ dccMessage.data[2] = 255

---------------------------------------------------------------------------
(* SpecStale: packets of four bytes for another loco, followed by packets  *)
(* of three bytes that carry a 14-bit address                              *)

PktOther128A  == WithXor(<<5, 63, 58>>)       \* loco 5, reverse, step 57; xor 00
PktOther128B  == WithXor(<<5, 63, 57>>)       \* loco 5, reverse, step 56; xor 03
PktLongCut    == WithXor(<<192, 255>>)        \* loco 255, 14 bit; the xor is 3F

StalePackets ==
  {PktOther128A, PktOther128B, PktLongCut, PktOtherLoco,
   PktOtherAcc}

NextStale ==
  \/ Setup(CfgLenz)
  \/ \E p \in StalePackets : Send(p)
  \/ Poll

SpecStale == Init /\ [][NextStale]_vars

\* the exchange buffer with the bytes behind the packet replaced by v
Refill(m, v) ==
  [m EXCEPT !.data = [i \in 0 .. MaxDccSize - 1 |->
                        IF i < m.size THEN m.data[i] ELSE v]]

\* C31: what input() makes of a packet with a correct checksum is what it
\* makes of the same packet and decoder state with any other bytes behind
\* the packet in the exchange buffer: the same cmdType and the same state
C31_NoStaleBytes ==
  [][PollValid =>
       \A v \in 0 .. Uint8 - 1 :
         LET w == Classify(World, Refill(dccMessage, v), millis)
         IN /\ dcc'.cmdType = w.r
            /\ cvMessage' = w.cv
            /\ backup' = w.bk
            /\ locoCmd' = w.loco
            /\ accCmd' = w.acc
            /\ accMessage' = w.am
            /\ cvCmd' = w.cvc]_vars

---------------------------------------------------------------------------
(* SpecWatch: the capture interrupt of sup_isr_MegaCoreX_DxCore.h fed half  *)
(* bits after attach(), every interval recorded                            *)

HalfWatched(h) == HalfIsr(h, TRUE)

NextWatch ==
  \/ Setup(CfgLenz)
  \/ \E h \in {"one", "zero", "other"} : HalfWatched(h)

SpecWatch == Init /\ [][NextWatch]_vars

---------------------------------------------------------------------------
(* Properties of the half-bit capture *)

\* the capture interrupt ran in this step with an interval of kind h
HalfStep(h) ==
  /\ attached /\ attached'
  /\ half'.kind # half.kind \/ half'.tick # half.tick
  /\ half'.kind = h

AssemblerUnchanged == UNCHANGED <<dccrecState, dccrec, tempByte, dccMessage>>

\* C32: a 0 half bit that arrives in WAIT_START_BIT while the second half of
\* a 1-bit is expected is kept as the first half of the start bit and the
\* assembler is left alone; the next 0 half bit hands over the bit 0 and the
\* assembler enters WAIT_DATA as it does behind an even preamble, with no
\* bit and no byte counted; the same mismatch in any other assembler state
\* puts the assembler in WAIT_PREAMBLE with bit count 0
C32_OddPreamble ==
  [][ /\ HalfStep("zero") /\ driver.dccHalfBit = EXPECT_ONE
           /\ dccrecState = "WAIT_START_BIT"
        => driver'.dccHalfBit = EXPECT_ZERO /\ AssemblerUnchanged
      /\ HalfStep("zero") /\ driver.dccHalfBit = EXPECT_ZERO
           /\ dccrecState = "WAIT_START_BIT"
        => /\ driver'.dccHalfBit = EXPECT_ANYTHING
           /\ dccrecState' = "WAIT_DATA"
           /\ dccrec'.bitCount = 0
           /\ dccrec'.tempMessageSize = 0
           /\ tempByte' = 0
           /\ dccMessage' = dccMessage
      /\ HalfStep("zero") /\ driver.dccHalfBit = EXPECT_ONE
           /\ dccrecState # "WAIT_START_BIT"
        => dccrecState' = "WAIT_PREAMBLE" /\ dccrec'.bitCount = 0 ]_vars

\* the start bit was handed over behind an odd number of 1 half bits: the
\* assembler waits for the first data bit
C32_Witness ==
  /\ attached
  /\ half.kind = "zero"
  /\ half.odd
  /\ driver.dccHalfBit = EXPECT_ANYTHING
  /\ dccrecState = "WAIT_DATA"
  /\ dccrec.bitCount = 0
  /\ dccrec.tempMessageSize = 0
  /\ obs.bit = 0
  /\ obs.run >= PreambleMin + 1

\* the interrupt of this step handed the bit b to the assembler
Handed(b) ==
  /\ \E h \in {"one", "zero"} : HalfStep(h)
  /\ half'.gave
  /\ obs'.bit = b

KindOf(b) == IF b = 1 THEN "one" ELSE "zero"

\* C33: a bit b is handed to the assembler only by an interval of the kind
\* of b whose predecessor among the intervals inside a band was of the same
\* kind and handed over nothing; the second half that is expected hands over
\* its bit; an interval outside both bands hands over nothing and leaves the
\* half-bit expectation, the assembler and its bit count as they were
C33_HalfPairs ==
  [][ /\ \A b \in {0, 1} :
           Handed(b) => /\ half'.kind = KindOf(b)
                        /\ half.last = KindOf(b)
                        /\ ~half.gave
      /\ HalfStep("one") /\ driver.dccHalfBit = EXPECT_ONE => Handed(1)
      /\ HalfStep("zero") /\ driver.dccHalfBit = EXPECT_ZERO
           /\ dccrecState # "WAIT_PREAMBLE" => Handed(0)
      /\ HalfStep("other")
           => /\ driver'.dccHalfBit = driver.dccHalfBit
              /\ AssemblerUnchanged
              /\ obs' = obs ]_vars

\* the second of two 1 half bits handed over the first bit of a byte, a 1
C33_Witness ==
  /\ attached
  /\ half.kind = "one"
  /\ half.gave
  /\ obs.bit = 1
  /\ driver.dccHalfBit = EXPECT_ANYTHING
  /\ dccrecState = "WAIT_DATA"
  /\ dccrec.bitCount = 1
  /\ tempByte = 1

---------------------------------------------------------------------------
(* SpecEdge: dcc_interrupt of the driver that times whole bits from edge   *)
(* to edge, fed the bits of a frame and intervals outside the bands        *)

EdgeFrames == {<<3, 100, 103>>}

\* case MAX1 ... (MIN0 - 1): the trigger edge is flipped, the packet is
\* dropped, and after the break the assembler runs with the bit value the
\* interrupt before left in DccBitVal
EdgeBetween ==
  LET b == generic.DccBitVal
  IN /\ generic' = [generic EXCEPT !.IsrRising = ~generic.IsrRising]
     /\ dccrecState' = IF b = 1 /\ PreambleComplete(0 + 1)
                       THEN "WAIT_START_BIT" ELSE "WAIT_PREAMBLE"
     /\ dccrec' = [dccrec EXCEPT !.bitCount = IF b = 1 THEN 0 + 1 ELSE 0]
     /\ obs' = [obs EXCEPT !.bit = 2, !.ones = 0, !.fed = <<>>]
     /\ UNCHANGED <<attached, tempByte, dccMessage, dcc, cvMessage, backup,
                    locoCmd, locoMessage, accCmd, accMessage, cvCmd, millis,
                    ret, sketch, input>>

\* dcc_interrupt with microsDiff in the band of a 1-bit ("one"), of a 0-bit
\* ("zero"), between the two ("between") or outside both ("other")
dcc_interrupt(k) ==
  /\ attached
  /\ CASE k = "one" ->
            /\ Feed(EdgeFrames, 1)
            /\ generic' = [generic EXCEPT !.DccBitVal = 1]
       [] k = "zero" ->
            /\ Feed(EdgeFrames, 0)
            /\ generic' = [generic EXCEPT !.DccBitVal = 0]
       [] k = "between" -> EdgeBetween
       [] OTHER ->
            UNCHANGED <<attached, dccrecState, tempByte, dccrec, dccMessage,
                        dcc, cvMessage, backup, locoCmd, locoMessage, accCmd,
                        accMessage, cvCmd, millis, ret, sketch, input,
                        generic, obs>>
  /\ half' = [half EXCEPT !.kind = k,
                          !.tick = IF half.kind = k THEN 1 - half.tick ELSE 0]
  /\ UNCHANGED driver

\* the driver's attach(): the assembler is initialised, IsrRising is kept
AttachEdge ==
  /\ Setup(CfgLenz)

NextEdge ==
  \/ AttachEdge
  \/ \E k \in {"one", "zero", "between", "other"} : dcc_interrupt(k)

SpecEdge == Init /\ [][NextEdge]_vars

\* C34: an interval between the two bands flips the trigger edge and leaves
\* the assembler waiting for a preamble with bit count 0, no bit handed
\* over; an interval outside both bands changes nothing
C34_BetweenBands ==
  [][ /\ HalfStep("between")
        => /\ generic'.IsrRising # generic.IsrRising
           /\ dccrecState' = "WAIT_PREAMBLE"
           /\ dccrec'.bitCount = 0
           /\ UNCHANGED <<tempByte, dccMessage>>
      /\ HalfStep("other")
        => UNCHANGED <<dccrecState, dccrec, tempByte, dccMessage, generic>>
    ]_vars

---------------------------------------------------------------------------
(* SpecQuiet: Service Mode packets with idle and reset packets in between,  *)
(* the clock advancing between the polls                                   *)

QuietPackets == {PktReset, PktIdle, PktSmWrite, PktF0F4}

\* what was read inside the window since the last CV packet
QuietGap(w, m, now) ==
  IF myxor(m) # 0 THEN obs.gap
  ELSE IF Via(m, now) # "sm" THEN 0
  ELSE IF w.idn THEN (IF obs.gap = 1 THEN 3 ELSE 0)
  ELSE IF IsResetShape(m) \/ IsIdleShape(m)
    THEN (IF obs.gap = 2 THEN 2 ELSE 1)
  ELSE 2

\* Dcc::input, the packets between two CV packets recorded
PollQuiet ==
  /\ IF dccMessage.isReady # 0
     THEN LET m  == dccMessage
              ok == myxor(m) = 0
              w  == IF ok THEN Classify(World, m, millis) ELSE World
          IN /\ dcc' = IF ok THEN [dcc EXCEPT !.cmdType = w.r]
                       ELSE ChecksumError(dcc)
             /\ cvMessage' = w.cv
             /\ backup' = w.bk
             /\ locoCmd' = w.loco
             /\ accCmd' = w.acc
             /\ accMessage' = w.am
             /\ cvCmd' = w.cvc
             /\ dccMessage' = ClearReady(dccMessage)
             /\ ret' = "true"
             /\ obs' = [ObsPoll(w, m, millis) EXCEPT
                          !.gap = QuietGap(w, m, millis)]
     ELSE /\ ret' = "false"
          /\ UNCHANGED <<dcc, cvMessage, backup, locoCmd, accCmd, accMessage,
                         cvCmd, dccMessage, obs>>
  /\ UNCHANGED <<attached, dccrecState, tempByte, dccrec, locoMessage, millis,
                 sketch, input, driver, generic, half>>

NextQuiet ==
  \/ Setup(CfgLenz)
  \/ \E p \in QuietPackets : Send(p)
  \/ PollQuiet
  \/ \E d \in {TickShort, TickLong} : Tick(d)

SpecQuiet == Init /\ [][NextQuiet]_vars

\* input() read a packet with a correct checksum inside the open window,
\* before its timeout
OpenWindowStep ==
  /\ WindowStep
  /\ millis - cvMessage.SmTime < SmTimeOut

\* C35: a reset packet and an idle packet read inside the open window before
\* its timeout restart the timer, are classified IgnoreCmd and leave cvCmd
\* and the backup with its counter alone; a CV packet that repeats the CV
\* packet read before it, with idle and reset packets only between the two,
\* is accepted as the second identical packet: SmCmd
C35_QuietExtends ==
  [][ /\ OpenWindowStep /\ (IsResetShape(dccMessage) \/ IsIdleShape(dccMessage))
        => /\ cvMessage'.inServiceMode
           /\ cvMessage'.SmTime = millis
           /\ dcc'.cmdType = "IgnoreCmd"
           /\ UNCHANGED <<cvCmd, backup>>
      /\ OpenWindowStep /\ IsSmShape(dccMessage) /\ dccMessage.size = 4
           /\ obs.gap = 1 /\ obs.cvRun = 1 /\ Pkt(dccMessage) = obs.cvLast
        => /\ dcc'.cmdType = "SmCmd"
           /\ backup'.count = 2 ]_vars

\* write CV 3 := 85 was read twice inside the window, with idle or reset
\* packets and no others read between the two and the second copy read 79 ms
\* after the window opened: it was accepted
C35_Witness ==
  /\ ret = "true"
  /\ dcc.cmdType = "SmCmd"
  /\ obs.gap = 3
  /\ obs.cvRun = 2
  /\ obs.cvLast = PktSmWrite
  /\ Pkt(dccMessage) = PktSmWrite
  /\ cvCmd.number = 3
  /\ cvCmd.value = 85
  /\ cvMessage.inServiceMode
  /\ cvMessage.SmTime = TickShort + TickLong + TickShort
  /\ millis = cvMessage.SmTime

---------------------------------------------------------------------------
(* SpecBinary: binary state commands in the short and the long form, for   *)
(* the 7 bit and the 14 bit form of the decoder's address, with function   *)
(* group commands for F29 .. F36 in between                                *)

PktBin29On     == WithXor(<<3, 221, 157>>)     \* loco 3, 1101-1101: state 29 on
PktBin29Off    == WithXor(<<3, 221, 29>>)      \* state 29 off
PktBin68On     == WithXor(<<3, 221, 196>>)     \* state 68 on
PktBin0On      == WithXor(<<3, 221, 128>>)     \* state 0 on: all of F29 .. F68
PktBin0Off     == WithXor(<<3, 221, 0>>)       \* state 0 off
PktBin28On     == WithXor(<<3, 221, 156>>)     \* state 28 on: reserved
PktBin69On     == WithXor(<<3, 221, 197>>)     \* state 69 on: the application's
PktBinLong30   == WithXor(<<3, 192, 158, 0>>)  \* 1100-0000: state 30 on, high 0
PktBinLong285  == WithXor(<<3, 192, 157, 1>>)  \* 1100-0000: low 29 on, high 1
PktBin14Long30 == WithXor(<<192, 3, 192, 158, 0>>)   \* the same two for the
PktBin14Long285 == WithXor(<<192, 3, 192, 157, 1>>)  \* 14 bit address 3
PktF29F36Off   == WithXor(<<3, 216, 0>>)       \* 1101-1000: F29 .. F36 off

BinaryPackets ==
  {PktBin29On, PktBin29Off, PktBin68On, PktBin0On, PktBin0Off, PktBin28On,
   PktBin69On, PktBinLong30, PktBinLong285, PktBin14Long30, PktBin14Long285,
   PktF29F36, PktF29F36Off}

NextBinary ==
  \/ Setup(CfgLenz)
  \/ \E p \in BinaryPackets : Send(p)
  \/ Poll

SpecBinary == Init /\ [][NextBinary]_vars

\* the two bytes behind the instruction byte of a binary state command
BinaryLow(m) == LocoData(m)
BinaryHigh(m) == IF LocoLong(m) THEN m.data[4] ELSE m.data[3]

\* the state number and the value a binary state packet carries: DLLL-LLLL
\* in the short form, HHHH-HHHH above the seven bits L in the long form
CarriedNumber(m) ==
  IF LocoInstruction(m) = 192
  THEN (Bits(BinaryLow(m), 0, 7) + (BinaryHigh(m) * 256)) % Uint16
  ELSE Bits(BinaryLow(m), 0, 7)

CarriedValue(m) == Bit(BinaryLow(m), 7) = 1

\* m is a loco packet for an address of this decoder
IsMyLocoPacket(m) ==
  /\ (m.data[0] >= 1 /\ m.data[0] <= 127)
       \/ (m.data[0] >= 192 /\ m.data[0] <= 231)
  /\ LocoAddress(m) >= locoMessage.myLocoAddressFirst
  /\ LocoAddress(m) <= locoMessage.myLocoAddressLast

\* input() reads a binary state command for this decoder
MyBinaryStep ==
  /\ PollValid
  /\ ~cvMessage.inServiceMode
  /\ IsMyLocoPacket(dccMessage)
  /\ LocoInstruction(dccMessage) \in {221, 192}

\* bit n of the packed field F29_F68, F29 at bit 0
FBit(f, n) == Bit(f[n \div 8], n % 8)

BoolBit(v) == IF v THEN 1 ELSE 0

\* C36: when input() has read a binary state command for this decoder with
\* a state number n in 29 .. 68 and the value v, bit n - 29 of F29_F68 is v,
\* whatever function group and binary state commands were read before
C36_BitFollows ==
  [][MyBinaryStep /\ CarriedNumber(dccMessage) >= 29
                  /\ CarriedNumber(dccMessage) <= 68
       => FBit(locoCmd'.F29_F68, CarriedNumber(dccMessage) - 29)
            = BoolBit(CarriedValue(dccMessage))]_vars

---------------------------------------------------------------------------
(* SpecOther: commands of every kind for loco 5, in the 7 bit and the 14   *)
(* bit form of its address, between commands for this decoder that set its *)
(* speed, function groups, binary state and the CV access backup           *)

PktOtherF0F4     == WithXor(<<5, 158>>)          \* loco 5, 1001-1110
PktOtherF29F36   == WithXor(<<5, 216, 255>>)     \* loco 5, 1101-1000: all on
PktOtherBin29    == WithXor(<<5, 221, 29>>)      \* loco 5, state 29 off
PktOtherBin0     == WithXor(<<5, 221, 128>>)     \* loco 5, state 0 on
PktOtherInstr0   == WithXor(<<5, 0>>)            \* loco 5, 0000-0000: reset
PktOtherPomWrite == WithXor(<<5, 236, 2, 85>>)   \* loco 5, write CV 3 := 85
PktOther14F0F4   == WithXor(<<192, 5, 158>>)     \* loco 5, 14 bit address
PktOther14Speed  == WithXor(<<192, 5, 100>>)     \* loco 5, 14 bit, step 5

OtherPackets ==
  {PktSpeed28, PktF0F4, PktF29F36, PktBin29On, PktPom,
   PktOtherLoco, PktOtherF0F4, PktOtherF29F36, PktOtherBin29, PktOtherBin0,
   PktOtherInstr0, PktOtherPomWrite, PktOther14F0F4, PktOther14Speed}

NextOther ==
  \/ Setup(CfgLenz)
  \/ \E p \in OtherPackets : Send(p)
  \/ Poll

SpecOther == Init /\ [][NextOther]_vars

\* input() reads a loco packet for an address outside the listen range
OtherLocoStep ==
  /\ PollValid
  /\ ~cvMessage.inServiceMode
  /\ (dccMessage.data[0] >= 1 /\ dccMessage.data[0] <= 127)
       \/ (dccMessage.data[0] >= 192 /\ dccMessage.data[0] <= 231)
  /\ ~IsMyLocoPacket(dccMessage)

\* C37: a loco packet for an address outside the listen range changes
\* address and longAddress and no other field of the loco state; if its
\* instruction is not a speed instruction (function group, binary state,
\* reset, CV access) it is classified IgnoreCmd and the backup of the CV
\* access duplicate detection keeps its content and its count
C37_OtherLocoKeeps ==
  [][OtherLocoStep
       => /\ locoCmd' = [locoCmd EXCEPT
                           !.address = LocoAddress(dccMessage),
                           !.longAddress = LocoLong(dccMessage)]
          /\ ~IsSpeed28(LocoInstruction(dccMessage))
               /\ ~IsSpeed128(LocoInstruction(dccMessage))
               => /\ dcc'.cmdType = "IgnoreCmd"
                  /\ UNCHANGED <<backup, cvCmd>>]_vars

\* after a speed command, two function groups, a binary state and a CV write
\* for this decoder, a CV write for loco 5 was just read: it is ignored, the
\* state holds what the decoder's own commands set and the backup still its
\* own CV write
C37_Witness ==
  /\ ret = "true" /\ dcc.cmdType = "IgnoreCmd"
  /\ Pkt(dccMessage) = PktOtherPomWrite
  /\ locoCmd.address = 5
  /\ locoCmd.speed = 5 /\ locoCmd.F0F4 = 17
  /\ F29F36(locoCmd) = 129
  /\ locoCmd.binaryStateNumber = 29 /\ locoCmd.binaryStateValue
  /\ backup.size = 5 /\ backup.data[0] = 3 /\ backup.count = 1

---------------------------------------------------------------------------
(* SpecGroups: a command for each of the ten function groups, some of them *)
(* with a second value or for the 14 bit form of the address, repeated and *)
(* in any order, at most MaxGroupsOn groups on at a time                   *)

PktF0F4Off   == WithXor(<<3, 128>>)            \* 1000-0000: F0 .. F4 off
PktF5F8      == WithXor(<<3, 181>>)            \* 1011-0101: F5 and F7 on
PktF9F12     == WithXor(<<3, 165>>)            \* 1010-0101: F9 and F11 on
PktF13F20    == WithXor(<<3, 222, 129>>)       \* 1101-1110: F13 and F20 on
PktF21F28    == WithXor(<<3, 223, 66>>)        \* 1101-1111: F22 and F27 on
PktF37F44    == WithXor(<<3, 217, 3>>)         \* 1101-1001: F37 and F38 on
PktF45F52    == WithXor(<<3, 218, 4>>)         \* 1101-1010: F47 on
PktF53F60    == WithXor(<<3, 219, 8>>)         \* 1101-1011: F56 on
PktF61F68    == WithXor(<<3, 220, 1>>)         \* 1101-1100: F61 on
PktF14F13F20 == WithXor(<<192, 3, 222, 129>>)  \* 14 bit address: F13, F20 on
PktF14F29F36 == WithXor(<<192, 3, 216, 0>>)    \* 14 bit address: F29 - F36 off

GroupPackets ==
  {PktF0F4, PktF0F4Off, PktF5F8, PktF9F12, PktF13F20, PktF21F28, PktF29F36,
   PktF37F44, PktF45F52, PktF53F60, PktF61F68, PktF14F13F20, PktF14F29F36}

\* the number of function groups that hold a value other than 0
MaxGroupsOn == 3

GroupsOn(loco) ==
  Cardinality({g \in {"F0F4", "F5F8", "F9F12", "F13F20", "F21F28"} :
                 loco[g] # 0})
    + Cardinality({k \in 0 .. 4 : FByte(loco.F29_F68, k) # 0})

\* a command that switches functions on is fed only while fewer than
\* MaxGroupsOn groups are on
SendGroup(p) ==
  /\ GroupsOn(locoCmd) < MaxGroupsOn \/ p \in {PktF0F4Off, PktF14F29F36}
  /\ Send(p)

NextGroups ==
  \/ Setup(CfgLenz)
  \/ \E p \in GroupPackets : SendGroup(p)
  \/ Poll

SpecGroups == Init /\ [][NextGroups]_vars

\* the ten function groups of the loco state, F29_F68 by its bytes
GroupNames ==
  {"F0F4", "F5F8", "F9F12", "F13F20", "F21F28",
   "F29F36", "F37F44", "F45F52", "F53F60", "F61F68"}

GroupField(loco, g) ==
  CASE g = "F29F36" -> F29F36(loco)
    [] g = "F37F44" -> F37F44(loco)
    [] g = "F45F52" -> F45F52(loco)
    [] g = "F53F60" -> F53F60(loco)
    [] g = "F61F68" -> F61F68(loco)
    [] OTHER -> loco[g]

\* the group a function group instruction names: 100D-DDDD, 1011-DDDD,
\* 1010-DDDD and 1101-1XXX
GroupOf(instr) ==
  IF Bits(instr, 5, 3) = 4 THEN "F0F4"
  ELSE IF Bits(instr, 4, 4) = 11 THEN "F5F8"
  ELSE IF Bits(instr, 4, 4) = 10 THEN "F9F12"
  ELSE CASE Bits(instr, 0, 3) = 6 -> "F13F20"
         [] Bits(instr, 0, 3) = 7 -> "F21F28"
         [] Bits(instr, 0, 3) = 0 -> "F29F36"
         [] Bits(instr, 0, 3) = 1 -> "F37F44"
         [] Bits(instr, 0, 3) = 2 -> "F45F52"
         [] Bits(instr, 0, 3) = 3 -> "F53F60"
         [] Bits(instr, 0, 3) = 4 -> "F61F68"

IsGroupInstruction(instr) ==
  \/ Bits(instr, 5, 3) = 4
  \/ Bits(instr, 5, 3) = 5
  \/ Bits(instr, 3, 5) = 27 /\ Bits(instr, 0, 3) # 5

\* the value a function group packet carries
GroupValue(m) ==
  LET instr == LocoInstruction(m)
  IN IF Bits(instr, 5, 3) = 4 THEN Bits(instr, 0, 5)
     ELSE IF Bits(instr, 5, 3) = 5 THEN Bits(instr, 0, 4)
     ELSE LocoData(m)

GroupCmd(g) ==
  CASE g = "F0F4" -> "MyLocoF0F4Cmd"
    [] g = "F5F8" -> "MyLocoF5F8Cmd"
    [] g = "F9F12" -> "MyLocoF9F12Cmd"
    [] g = "F13F20" -> "MyLocoF13F20Cmd"
    [] g = "F21F28" -> "MyLocoF21F28Cmd"
    [] g = "F29F36" -> "MyLocoF29F36Cmd"
    [] g = "F37F44" -> "MyLocoF37F44Cmd"
    [] g = "F45F52" -> "MyLocoF45F52Cmd"
    [] g = "F53F60" -> "MyLocoF53F60Cmd"
    [] g = "F61F68" -> "MyLocoF61F68Cmd"

\* input() reads a function group command for this decoder
MyGroupStep ==
  /\ PollValid
  /\ ~cvMessage.inServiceMode
  /\ IsMyLocoPacket(dccMessage)
  /\ IsGroupInstruction(LocoInstruction(dccMessage))

\* speed, direction and binary state of the loco state
LocoRestUnchanged ==
  /\ locoCmd'.speed = locoCmd.speed
  /\ locoCmd'.forward = locoCmd.forward
  /\ locoCmd'.emergencyStop = locoCmd.emergencyStop
  /\ locoCmd'.binaryStateNumber = locoCmd.binaryStateNumber
  /\ locoCmd'.binaryStateValue = locoCmd.binaryStateValue

\* C38: a function group command for this decoder whose value differs from
\* the stored value of its group sets the group to the value, leaves the
\* other nine groups unchanged and is reported as the MyLocoF..Cmd of the
\* group; one whose value equals the stored value is classified IgnoreCmd
\* and changes no group.  In both cases speed, direction and binary state
\* keep their values (address and longAddress are those of the packet)
C38_GroupStored ==
  [][MyGroupStep
       => LET g == GroupOf(LocoInstruction(dccMessage))
              v == GroupValue(dccMessage)
          IN /\ GroupField(locoCmd', g) = v
             /\ \A h \in GroupNames \ {g} :
                  GroupField(locoCmd', h) = GroupField(locoCmd, h)
             /\ LocoRestUnchanged
             /\ UNCHANGED <<backup, cvCmd, accCmd>>
             /\ dcc'.cmdType = IF GroupField(locoCmd, g) = v
                                 THEN "IgnoreCmd" ELSE GroupCmd(g)]_vars

\* F13 .. F20 were set to 0x81 by a packet in the 14 bit form of the address
\* while two other groups held values, and the command was reported
C38_Witness ==
  /\ ret = "true" /\ dcc.cmdType = "MyLocoF13F20Cmd"
  /\ Pkt(dccMessage) = PktF14F13F20
  /\ locoCmd.longAddress /\ locoCmd.F13F20 = 129
  /\ locoCmd.F0F4 = 17 /\ F61F68(locoCmd) = 1

\* the same value was read again and ignored
C38_WitnessRepeat ==
  /\ ret = "true" /\ dcc.cmdType = "IgnoreCmd"
  /\ Pkt(dccMessage) = PktF13F20 /\ locoCmd.F13F20 = 129
  /\ locoCmd.F0F4 = 17

\* the command that reports the function group of Fn, n in 29 .. 68
GroupCmdOfState(n) ==
  <<"MyLocoF29F36Cmd", "MyLocoF37F44Cmd", "MyLocoF45F52Cmd",
    "MyLocoF53F60Cmd", "MyLocoF61F68Cmd">>[((n - 29) \div 8) + 1]

\* what a binary state command with state number n and value v, not a
\* repeat of the stored pair, does to the function bits
BinaryEffect(n, v) ==
  /\ n >= 29 /\ n <= 68
       => /\ \A i \in 0 .. 39 :
               FBit(locoCmd'.F29_F68, i)
                 = IF i = n - 29 THEN BoolBit(v) ELSE FBit(locoCmd.F29_F68, i)
          /\ dcc'.cmdType = GroupCmdOfState(n)
  /\ n = 0 => \A i \in 0 .. 39 : FBit(locoCmd'.F29_F68, i) = BoolBit(v)
  /\ (n >= 1 /\ n <= 28) \/ n > 68
       => locoCmd'.F29_F68 = locoCmd.F29_F68
  /\ \A g \in {"F0F4", "F5F8", "F9F12", "F13F20", "F21F28"} :
       locoCmd'[g] = locoCmd[g]

\* C39: a binary state command for this decoder, short or long form, that
\* does not repeat the stored number and value: a state number n in 29 .. 68
\* sets bit n - 29 of F29_F68 to the value, leaves the other 39 bits
\* unchanged and reports the command of the group of Fn; state number 0 sets
\* all 40 bits to the value; any other state number changes no function bit
C39_BinaryState ==
  [][MyBinaryStep
       /\ ~(/\ locoCmd.binaryStateNumber = CarriedNumber(dccMessage)
            /\ locoCmd.binaryStateValue = CarriedValue(dccMessage))
       => BinaryEffect(CarriedNumber(dccMessage), CarriedValue(dccMessage))]_vars

\* the same for the state number that step 9A stores, whatever the packet
\* carries
BinaryStateAsStored ==
  [][MyBinaryStep
       /\ ~(/\ locoCmd.binaryStateNumber = locoCmd'.binaryStateNumber
            /\ locoCmd.binaryStateValue = locoCmd'.binaryStateValue)
       => BinaryEffect(locoCmd'.binaryStateNumber,
                       locoCmd'.binaryStateValue)]_vars

\* the long form binary state packet m with the same two bytes DLLL-LLLL and
\* HHHH-HHHH for the other form of its address, 7 bit for 14 bit and 14 bit
\* for 7 bit
OtherAddressForm(m) ==
  LET p == IF LocoLong(m)
           THEN <<m.data[1], 192, BinaryLow(m), BinaryHigh(m)>>
           ELSE <<192, m.data[0], 192, BinaryLow(m), BinaryHigh(m)>>
      q == WithXor(p)
  IN [m EXCEPT !.size = Len(q), !.data = AsArray(q)]

\* C40: the state number and the value that input() stores for a long form
\* binary state command are those it stores, in the same decoder state, for
\* the packet with the same low and high byte and the other form of the
\* address
C40_SameNumber ==
  [][MyBinaryStep /\ LocoInstruction(dccMessage) = 192
                  /\ LocoAddress(dccMessage) <= 127
       => LET w == Classify(World, OtherAddressForm(dccMessage), millis)
          IN /\ locoCmd'.binaryStateNumber = w.loco.binaryStateNumber
             /\ locoCmd'.binaryStateValue = w.loco.binaryStateValue]_vars

===========================================================================
